---------------------------- MODULE Spec2Model ----------------------------
(***************************************************************************)
(* Windowed chunking and batched-analysis orchestration of the rhetoric    *)
(* analyzer (src/new/DPL/src).  These state machines share this module:   *)
(*                                                                         *)
(*   SpecGroup    SlidingWindowChunker._combine_to_groups  (chunker.py)    *)
(*   SpecSplit    SlidingWindowChunker.split, offsets      (chunker.py,    *)
(*                and the two split policies                app.py)        *)
(*   SpecAnalyze  FullPipeline._analyze_groups and the loop of             *)
(*                LegacyPipeline.run                        (pipeline.py)  *)
(*   SpecPort     the same loop driving LiteLLMChain or     (litellm_      *)
(*                OpenAILLMChain on the text of a response   client.py,    *)
(*                                                           openai_       *)
(*                                                           client.py)    *)
(*   SpecRun      FullPipeline.run and LegacyPipeline.run   (pipeline.py)  *)
(*   SpecBatch    FullPipeline.run over videos of enough    (pipeline.py)  *)
(*                windows to stop the analysis loop                        *)
(*   SpecCeiling  the two loops under a max_groups that is  (pipeline.py)  *)
(*                not positive                                             *)
(*   SpecLocal    the analysis loop of run_local_file       (app.py)       *)
(*   SpecScenario _combine_to_groups with max_tokens = 10   (chunker.py)   *)
(*                                                                         *)
(* Each specification drives its own variables and keeps the others at     *)
(* their idle value.  split() ends by calling _combine_to_groups on the    *)
(* chunk list it built; SpecGroup starts from every chunk list within the  *)
(* bounds, so it covers every list split() can hand over.                  *)
(***************************************************************************)
EXTENDS Integers, Sequences, FiniteSets, TLC

VARIABLES
    pc,                 \* position in the function the specification runs
    \* ---- SlidingWindowChunker._combine_to_groups
    chunk_objs,         \* the Chunk list: sequence of [token_length |-> n]
    max_tokens,         \* self.max_tokens
    max_chunks,         \* self.max_chunks
    window_start,       \* self.window_start
    i,                  \* loop variable of `for i in range(start_idx, len(chunk_objs))`
    curr_grp,           \* the deque, as the 0-based indices of the chunks it holds
    curr_sum,           \* running token sum
    groups,             \* emitted ChunkGroups, each the list of its chunks' indices
    \* ---- SlidingWindowChunker.split
    text,               \* the input text, a sequence of one-character strings
    chunker,            \* which constructor call built the chunker
    raw_chunks,         \* self.split_fn(text)
    positions,          \* the (start_pos, end_pos) pairs
    speakers,           \* the speaker labels
    current_pos,        \* the offset cursor
    \* ---- FullPipeline._analyze_groups / the loop of LegacyPipeline.run
    pipeline,           \* which of the two copies of the loop runs
    analysis_groups,    \* the `groups` argument: sequence of [items |-> <chunks>]
    max_groups,         \* Optional[int]: {} is None, {m} is the integer m
    sleep_between_calls_s,
    idx,                \* loop variable of enumerate(groups[:limit])
    results,            \* the accumulated AnalysisResults
    consecutive_errors,
    calls,              \* history: the analyze_group calls made so far in the run
    sleeps,             \* history: the windows after which time.sleep ran
    \* ---- LiteLLMChain.analyze_group / OpenAILLMChain.analyze_group
    client,             \* which analyzer class self.analyzer is
    response,           \* what the call of the external model ended in
    \* ---- FullPipeline.run / LegacyPipeline.run
    videos,             \* len(videos), the videos being numbered 1..videos
    video,              \* loop variable of `for video in videos`
    all_results,
    processed_videos,
    errors,             \* history: what pipeline.py:205 logged
    sink,               \* history: the calls of the result writer
    outcome             \* what run() ended in

groupVars == <<chunk_objs, max_tokens, max_chunks, window_start, i, curr_grp, curr_sum, groups>>

splitVars == <<text, chunker, raw_chunks, positions, speakers, current_pos>>

analyzeVars == <<pipeline, analysis_groups, max_groups, sleep_between_calls_s, idx,
                 results, consecutive_errors, calls, sleeps>>

portVars == <<client, response>>

runVars == <<videos, video, all_results, processed_videos, errors, sink, outcome>>

vars == <<pc, groupVars, splitVars, analyzeVars, portVars, runVars>>

\* ------------------------------------------------------------------ bounds

MaxFragments == 4
MaxTokenLength == 2
MaxBudget == 3
MaxCap == 3
MaxStart == 2
MaxPieces == 4
MaxWindows == 7
MaxCeiling == 2
MaxPortWindows == 5
MaxVideos == 2
MaxScenarioFragments == 5
MaxBatchWindows == 5
MaxRunWindows == 1

\* ----------------------------------------------------------------- helpers

Min(a, b) == IF a <= b THEN a ELSE b

Max(a, b) == IF a >= b THEN a ELSE b

SeqsUpTo(S, n) == UNION {[1..k -> S] : k \in 0..n}

\* chunk_objs[k] for a 0-based Python index k
ChunkAt(k) == chunk_objs[k + 1]

\* sum(c.token_length for c in <the chunks with the indices idxs>)
RECURSIVE TokenSum(_)
TokenSum(idxs) ==
    IF idxs = <<>> THEN 0
    ELSE ChunkAt(Head(idxs)).token_length + TokenSum(Tail(idxs))

\* ===================================================================
\* SlidingWindowChunker._combine_to_groups        chunker.py:62-74
\* ===================================================================

\* the variables of split() while another function is being run
SplitIdle ==
    /\ text = <<>>
    /\ chunker = "none"
    /\ raw_chunks = <<>>
    /\ positions = <<>>
    /\ speakers = <<>>
    /\ current_pos = 0

\* the variables of the analysis loop while another function is being run
AnalyzeIdle ==
    /\ pipeline = "none"
    /\ analysis_groups = <<>>
    /\ max_groups = {}
    /\ sleep_between_calls_s = 0
    /\ idx = 0
    /\ results = <<>>
    /\ consecutive_errors = 0
    /\ calls = <<>>
    /\ sleeps = <<>>

\* the variables of the analyzer while no analyzer is involved
PortIdle ==
    /\ client = "none"
    /\ response = [kind |-> "none"]

\* the variables of run() while a function is run on its own
RunIdle ==
    /\ videos = 0
    /\ video = 0
    /\ all_results = <<>>
    /\ processed_videos = <<>>
    /\ errors = <<>>
    /\ sink = <<>>
    /\ outcome = [kind |-> "none"]

\* what _combine_to_groups does not touch
outsideGroup == <<splitVars, analyzeVars, portVars, runVars>>

\* Configurations: max_chunks >= 1, window_start >= 0, a positive budget and
\* non-negative token lengths (tiktoken's len(encode(..)) is never negative).
InitGroup ==
    /\ pc = "combine"
    /\ chunk_objs \in SeqsUpTo([token_length : 0..MaxTokenLength], MaxFragments)
    /\ max_tokens \in 1..MaxBudget
    /\ max_chunks \in 1..MaxCap
    /\ window_start \in 0..MaxStart
    /\ i = 0
    /\ curr_grp = <<>>
    /\ curr_sum = 0
    /\ groups = <<>>
    /\ SplitIdle
    /\ AnalyzeIdle
    /\ PortIdle
    /\ RunIdle

\* mutant of start_idx: the loop and the seed begin one chunk late
start_idx_late == window_start + 1

\* chunker.py:64
start_idx == window_start

\* chunker.py:63-66: deque(chunk_objs[:start_idx]) and its token sum
Seed ==
    /\ pc = "combine"
    /\ curr_grp' = [k \in 1..Min(start_idx, Len(chunk_objs)) |-> k - 1]
    /\ curr_sum' = TokenSum(curr_grp')
    /\ groups' = <<>>
    /\ i' = start_idx
    /\ pc' = "for"
    /\ UNCHANGED <<chunk_objs, max_tokens, max_chunks, window_start>>
    /\ UNCHANGED outsideGroup

\* chunker.py:68-69: the next i of range(start_idx, len(chunk_objs))
ForNext ==
    /\ pc = "for"
    /\ i < Len(chunk_objs)
    /\ curr_sum' = curr_sum + ChunkAt(i).token_length
    /\ pc' = "while"
    /\ UNCHANGED <<chunk_objs, max_tokens, max_chunks, window_start, i, curr_grp, groups>>
    /\ UNCHANGED outsideGroup

\* mutant of EvictCond: the token budget is not looked at
EvictCond_no_budget == Len(curr_grp) > max_chunks - 1

\* mutant of EvictCond: the deque may hold max_chunks chunks before the append
EvictCond_cap_off_by_one == curr_sum > max_tokens \/ Len(curr_grp) > max_chunks

\* mutant of EvictCond: a window that fills the budget exactly is evicted from
EvictCond_budget_inclusive == curr_sum >= max_tokens \/ Len(curr_grp) > max_chunks - 1

\* chunker.py:70: the condition of the eviction loop
EvictCond == curr_sum > max_tokens \/ Len(curr_grp) > max_chunks - 1

\* mutant of PopLeft: the eviction empties the deque instead of dropping its
\* oldest chunk
PopLeft_clears ==
    /\ pc = "while"
    /\ EvictCond
    /\ curr_grp # <<>>
    /\ curr_sum' = ChunkAt(i).token_length
    /\ curr_grp' = <<>>
    /\ UNCHANGED <<pc, chunk_objs, max_tokens, max_chunks, window_start, i, groups>>
    /\ UNCHANGED outsideGroup

\* chunker.py:71: curr_grp.popleft() on a non-empty deque
PopLeft ==
    /\ pc = "while"
    /\ EvictCond
    /\ curr_grp # <<>>
    /\ curr_sum' = curr_sum - ChunkAt(Head(curr_grp)).token_length
    /\ curr_grp' = Tail(curr_grp)
    /\ UNCHANGED <<pc, chunk_objs, max_tokens, max_chunks, window_start, i, groups>>
    /\ UNCHANGED outsideGroup

\* chunker.py:71: popleft() on an empty deque raises IndexError, which
\* _combine_to_groups does not catch: the call ends without a result.
PopLeftEmpty ==
    /\ pc = "while"
    /\ EvictCond
    /\ curr_grp = <<>>
    /\ pc' = "IndexError"
    /\ UNCHANGED groupVars
    /\ UNCHANGED outsideGroup

\* mutant of AppendEmit: the snapshot is taken before chunk i is appended
AppendEmit_snapshot_first ==
    /\ pc = "while"
    /\ ~EvictCond
    /\ curr_grp' = Append(curr_grp, i)
    /\ groups' = Append(groups, curr_grp)
    /\ i' = i + 1
    /\ pc' = "for"
    /\ UNCHANGED <<chunk_objs, max_tokens, max_chunks, window_start, curr_sum>>
    /\ UNCHANGED outsideGroup

\* chunker.py:72-73: append chunk i and emit a snapshot of the deque
AppendEmit ==
    /\ pc = "while"
    /\ ~EvictCond
    /\ curr_grp' = Append(curr_grp, i)
    /\ groups' = Append(groups, curr_grp')
    /\ i' = i + 1
    /\ pc' = "for"
    /\ UNCHANGED <<chunk_objs, max_tokens, max_chunks, window_start, curr_sum>>
    /\ UNCHANGED outsideGroup

\* chunker.py:68,74: the range is exhausted, return groups
ReturnGroups ==
    /\ pc = "for"
    /\ i >= Len(chunk_objs)
    /\ pc' = "returned"
    /\ UNCHANGED groupVars
    /\ UNCHANGED outsideGroup

\* -------------------------------------------------------------------
\* Properties of the grouper (checked under SpecGroup)
\* -------------------------------------------------------------------

\* the chunk a window ends with (its anchor), as a 0-based index
Anchor(w) == w[Len(w)]

Oversized(k) == ChunkAt(k).token_length > max_tokens

\* C1 (P1, window budget): every emitted window has a total token_length of
\* at most max_tokens, or consists of exactly one fragment.
C1_WindowBudget ==
    \A k \in 1..Len(groups) :
        TokenSum(groups[k]) <= max_tokens \/ Len(groups[k]) = 1

\* C1's case: a window was emitted after the budget (not the cap) evicted the
\* chunk before its first one.
C1_Witness ==
    \E k \in 1..Len(groups) :
        /\ Len(groups[k]) >= 2
        /\ Len(groups[k]) < max_chunks
        /\ Head(groups[k]) > 0
        /\ TokenSum(<<Head(groups[k]) - 1>> \o groups[k]) > max_tokens

\* C2 (P2, fragment cap): every emitted window holds at most max_chunks
\* fragments, the first window of a seed longer than max_chunks included.
C2_FragmentCap ==
    \A k \in 1..Len(groups) : Len(groups[k]) <= max_chunks

\* C2's case: the seed region is longer than max_chunks, there are at least
\* that many chunks, and the first window has been emitted.
C2_Witness ==
    /\ window_start > max_chunks
    /\ Len(chunk_objs) > window_start
    /\ Len(groups) >= 1
    /\ Len(groups[1]) = max_chunks

\* C3 (P3, anchor correspondence): the k-th emitted window (0-indexed) ends
\* with input fragment window_start + k; in particular anchors increase and
\* no fragment before window_start is the last fragment of a window.
C3_AnchorCorrespondence ==
    \A k \in 1..Len(groups) :
        /\ groups[k] # <<>>
        /\ Anchor(groups[k]) = window_start + (k - 1)

\* C3's case: grouping has returned at least two windows behind a seed.
C3_Witness ==
    /\ pc = "returned"
    /\ window_start >= 1
    /\ Len(groups) >= 2

\* C4 (oversized anchor): a fragment whose token_length alone exceeds
\* max_tokens does not make grouping fail; once it has been handled, the
\* window it anchors consists of exactly that fragment.
C4_OversizedAnchorKept ==
    /\ pc = "IndexError" => ~Oversized(i)
    /\ \A k \in 1..Len(groups) :
           Oversized(Anchor(groups[k])) => groups[k] = <<Anchor(groups[k])>>

\* C7 (window count): when every fragment fits the token budget on its own,
\* grouping does not fail and returns exactly max(0, n - window_start)
\* windows, n the number of fragments.
C7_WindowCount ==
    (\A k \in 0..(Len(chunk_objs) - 1) : ~Oversized(k)) =>
        /\ pc # "IndexError"
        /\ pc = "returned" =>
               Len(groups) = Max(0, Len(chunk_objs) - window_start)

\* C7's case: a returned run over fragments that all fit, with a seed and at
\* least two fragments beyond it.
C7_Witness ==
    /\ pc = "returned"
    /\ \A k \in 0..(Len(chunk_objs) - 1) : ~Oversized(k)
    /\ Len(chunk_objs) >= window_start + 2
    /\ window_start >= 1
    /\ Len(groups) = Len(chunk_objs) - window_start

\* the chunks a..b (0-based) in document order
RunOf(a, b) == [k \in 1..(b - a + 1) |-> a + k - 1]

\* the run a..b fits the token budget and the fragment cap
Feasible(a, b) ==
    /\ TokenSum(RunOf(a, b)) <= max_tokens
    /\ b - a + 1 <= max_chunks

\* C24 (window shape): every emitted window is a contiguous run of input
\* fragments in document order that ends at its anchor; it satisfies the
\* token budget and the fragment cap and no run ending at the same anchor
\* that satisfies both begins earlier; the first fragment of a window is
\* never before the first fragment of the window emitted before it.
C24_LongestFeasibleRun ==
    \A k \in 1..Len(groups) :
        LET anchor == window_start + (k - 1)
            first == Head(groups[k])
        IN  /\ groups[k] # <<>>
            /\ groups[k] = RunOf(first, anchor)
            /\ Feasible(first, anchor)
            /\ \A a \in 0..anchor : Feasible(a, anchor) => a >= first
            /\ k > 1 => Head(groups[k - 1]) <= first

\* C24's case: grouping has returned; a window of several fragments follows
\* a window that begins earlier, and fragment 0 has been evicted.
C24_Witness ==
    /\ pc = "returned"
    /\ Len(groups) >= 2
    /\ Len(groups[2]) >= 2
    /\ Head(groups[1]) < Head(groups[2])
    /\ Head(groups[1]) > 0

NextGroup ==
    \/ Seed
    \/ ForNext
    \/ PopLeft
    \/ PopLeftEmpty
    \/ AppendEmit
    \/ ReturnGroups

SpecGroup == InitGroup /\ [][NextGroup]_vars

\* ===================================================================
\* SlidingWindowChunker.split and the split policies
\*                                  chunker.py:32-60, 76-78; app.py:41-78
\* ===================================================================

\* ---- strings as sequences of one-character strings

Digits == {"0", "1", "2", "3", "4", "5", "6", "7", "8", "9"}

\* the characters \s matches and str.strip() removes
Whitespace == {" ", "\n", "\t", "\r"}

\* the class [.!?] of the sentence pattern
SentenceEnd == {".", "!", "?"}

\* text[p:] for a 1-based position p
From(t, p) == SubSeq(t, p, Len(t))

\* Python's t[a:b] for 0 <= a, 0 <= b (indices past the end are clamped)
Slice(t, a, b) == SubSeq(t, a + 1, Min(b, Len(t)))

\* first 1-based position >= p at which sep occurs in t, 0 if there is none
RECURSIVE Find(_, _, _)
Find(t, sep, p) ==
    IF p + Len(sep) - 1 > Len(t) THEN 0
    ELSE IF SubSeq(t, p, p + Len(sep) - 1) = sep THEN p
    ELSE Find(t, sep, p + 1)

\* str.split(sep): cut at the occurrences of sep, scanning left to right
RECURSIVE StrSplit(_, _)
StrSplit(t, sep) ==
    LET p == Find(t, sep, 1) IN
    IF p = 0 THEN <<t>>
    ELSE <<SubSeq(t, 1, p - 1)>> \o StrSplit(From(t, p + Len(sep)), sep)

\* sep.join(parts)
RECURSIVE StrJoin(_, _)
StrJoin(parts, sep) ==
    IF parts = <<>> THEN <<>>
    ELSE IF Len(parts) = 1 THEN parts[1]
    ELSE parts[1] \o sep \o StrJoin(Tail(parts), sep)

\* str.strip()
RECURSIVE LStrip(_)
LStrip(t) == IF t # <<>> /\ Head(t) \in Whitespace THEN LStrip(Tail(t)) ELSE t

RECURSIVE RStrip(_)
RStrip(t) ==
    IF t # <<>> /\ t[Len(t)] \in Whitespace THEN RStrip(SubSeq(t, 1, Len(t) - 1)) ELSE t

Strip(t) == LStrip(RStrip(t))

\* ---- a regular-expression matcher for the two patterns of app.py.  A
\* position is 1-based; 0 stands for "no match".

\* one literal character c at p
Lit(t, p, c) == IF p # 0 /\ p <= Len(t) /\ t[p] = c THEN p + 1 ELSE 0

\* X* for a character class X, greedy
RECURSIVE Star(_, _, _)
Star(t, p, class) ==
    IF p = 0 THEN 0
    ELSE IF p <= Len(t) /\ t[p] \in class THEN Star(t, p + 1, class)
    ELSE p

\* X+ for a character class X, greedy
Plus(t, p, class) ==
    IF p # 0 /\ p <= Len(t) /\ t[p] \in class THEN Star(t, p + 1, class) ELSE 0

\* \d+\.\d+s at p
Seconds(t, p) == Lit(t, Plus(t, Lit(t, Plus(t, p, Digits), "."), Digits), "s")

\* app.py:53: r'\[\d+\.\d+s\s*-\s*\d+\.\d+s\]\s*' at p: the position after
\* the match, 0 if it does not match at p.  Each class is followed by a
\* character outside it, so the greedy match is the only one.
TimecodeEnd(t, p) ==
    LET a == Seconds(t, Lit(t, p, "["))
        b == Star(t, Lit(t, Star(t, a, Whitespace), "-"), Whitespace)
        c == Lit(t, Seconds(t, b), "]")
    IN  Star(t, c, Whitespace)

\* app.py:53: re.sub(pattern, '', text)
RECURSIVE RemoveTimecodes(_)
RemoveTimecodes(t) ==
    IF t = <<>> THEN <<>>
    ELSE LET e == TimecodeEnd(t, 1) IN
         IF e # 0 THEN RemoveTimecodes(From(t, e))
         ELSE <<Head(t)>> \o RemoveTimecodes(Tail(t))

\* first position p >= from of a match of (?<=[.!?])\s+ in t, 0 if none
RECURSIVE SentenceBreak(_, _)
SentenceBreak(t, from) ==
    IF from > Len(t) THEN 0
    ELSE IF from >= 2 /\ t[from - 1] \in SentenceEnd /\ t[from] \in Whitespace THEN from
    ELSE SentenceBreak(t, from + 1)

\* app.py:55: re.split(r'(?<=[.!?])\s+', text)
RECURSIVE ReSplitSentences(_)
ReSplitSentences(t) ==
    LET p == SentenceBreak(t, 1) IN
    IF p = 0 THEN <<t>>
    ELSE <<SubSeq(t, 1, p - 1)>> \o ReSplitSentences(From(t, Star(t, p, Whitespace)))

\* app.py:56: [s.strip() for s in sentences if s.strip()]
RECURSIVE StripNonEmpty(_)
StripNonEmpty(parts) ==
    IF parts = <<>> THEN <<>>
    ELSE (IF Strip(Head(parts)) # <<>> THEN <<Strip(Head(parts))>> ELSE <<>>)
         \o StripNonEmpty(Tail(parts))

\* app.py:49-56
split_into_sentences(t) == StripNonEmpty(ReSplitSentences(RemoveTimecodes(t)))

DoubleNewline == <<"\n", "\n">>

\* chunker.py:76-78 (and the lambda of app.py:76)
_split_by_double_newline(t) == StrSplit(t, DoubleNewline)

\* The chunkers the program builds:
\*   "default"     SlidingWindowChunker()                  chunker.py:17-30
\*   "transcript"  build_chunker(for_transcript=True)      app.py:61-69
\*   "debate"      build_chunker(for_transcript=False)     app.py:70-78
Chunkers == {"default", "transcript", "debate"}

\* self.split_fn
split_fn(t) ==
    IF chunker = "transcript" THEN split_into_sentences(t)
    ELSE _split_by_double_newline(t)

\* self.speaker_fn: chunker.py:29 (lambda chunk: "other"), app.py:41-46
speaker_fn(chunk) == IF chunker = "default" THEN "other" ELSE "speaker"

\* the strings texts are put together from
TimecodePiece == <<"[", "0", ".", "0", "s", " ", "-", " ", "1", ".", "5", "s", "]", " ">>

Pieces == {<<"a">>, <<".">>, <<" ">>, <<"\n">>, TimecodePiece}

RECURSIVE Concat(_)
Concat(ps) == IF ps = <<>> THEN <<>> ELSE Head(ps) \o Concat(Tail(ps))

Texts == {Concat(ps) : ps \in SeqsUpTo(Pieces, MaxPieces)}

InitSplit ==
    /\ pc = "split"
    /\ text \in Texts
    /\ chunker \in Chunkers
    /\ max_tokens = (IF chunker = "transcript" THEN 4000 ELSE 6000)
    /\ max_chunks = (IF chunker = "transcript" THEN 8 ELSE 12)
    /\ window_start = (IF chunker = "transcript" THEN 1 ELSE 6)
    /\ raw_chunks = <<>>
    /\ positions = <<>>
    /\ speakers = <<>>
    /\ current_pos = 0
    /\ chunk_objs = <<>>
    /\ i = 0
    /\ curr_grp = <<>>
    /\ curr_sum = 0
    /\ groups = <<>>
    /\ AnalyzeIdle
    /\ PortIdle
    /\ RunIdle

\* what split() leaves alone before it calls _combine_to_groups
outsideSplit == <<max_tokens, max_chunks, window_start, i, curr_grp, curr_sum, groups,
                  analyzeVars, portVars, runVars>>

\* chunker.py:33-37
CallSplitFn ==
    /\ pc = "split"
    /\ raw_chunks' = split_fn(text)
    /\ positions' = <<>>
    /\ speakers' = <<>>
    /\ current_pos' = 0
    /\ pc' = "positions"
    /\ UNCHANGED <<text, chunker, chunk_objs>>
    /\ UNCHANGED outsideSplit

\* mutant of NextPos: the separator is counted as one character
NextPos_one_char(end_pos) == end_pos + 1

\* chunker.py:45: the cursor after a chunk that ends at end_pos
NextPos(end_pos) == end_pos + 2

\* chunker.py:38-45: one pass of the first loop, for the next chunk
PositionChunk ==
    /\ pc = "positions"
    /\ Len(positions) < Len(raw_chunks)
    /\ LET chunk == raw_chunks[Len(positions) + 1]
           start_pos == current_pos
           end_pos == current_pos + Len(chunk)
       IN  /\ positions' = Append(positions, <<start_pos, end_pos>>)
           /\ speakers' = Append(speakers, speaker_fn(chunk))
           /\ current_pos' = NextPos(end_pos)
    /\ UNCHANGED <<pc, text, chunker, raw_chunks, chunk_objs>>
    /\ UNCHANGED outsideSplit

\* chunker.py:47-60: the Chunk objects, handed to _combine_to_groups.
\* token_length (chunker.py:49) is the external tokenizer's count and is read
\* by _combine_to_groups only; SpecGroup ranges over its values.
BuildChunks ==
    /\ pc = "positions"
    /\ Len(positions) = Len(raw_chunks)
    /\ chunk_objs' = [k \in 1..Len(raw_chunks) |->
                         [speaker |-> speakers[k],
                          text |-> raw_chunks[k],
                          start_char_id |-> positions[k][1],
                          end_char_id |-> positions[k][2]]]
    /\ pc' = "combine_to_groups"
    /\ UNCHANGED <<text, chunker, raw_chunks, positions, speakers, current_pos>>
    /\ UNCHANGED outsideSplit

\* -------------------------------------------------------------------
\* Properties of split (checked under SpecSplit)
\* -------------------------------------------------------------------

\* text[start_char_id:end_char_id] of every chunk, in order
OffsetSlices == [k \in 1..Len(chunk_objs) |->
                    Slice(text, chunk_objs[k].start_char_id, chunk_objs[k].end_char_id)]

\* every chunk's offsets select the chunk's own text in the input
OffsetsLocateChunks ==
    \A k \in 1..Len(chunk_objs) : OffsetSlices[k] = chunk_objs[k].text

\* C8 (P4, offset round-trip): with the double-newline policy, the slice
\* text[start_char_id:end_char_id] equals the text of every fragment split
\* produced, and joining the slices with the two-character separator gives
\* back the input text.
C8_OffsetRoundTrip ==
    (pc = "combine_to_groups" /\ chunker = "default") =>
        /\ OffsetsLocateChunks
        /\ StrJoin(OffsetSlices, DoubleNewline) = text

\* C8's case: a text the default policy cut into two fragments or more, the
\* first two of them not empty.
C8_Witness ==
    /\ pc = "combine_to_groups"
    /\ chunker = "default"
    /\ Len(chunk_objs) >= 2
    /\ chunk_objs[1].text # <<>>
    /\ chunk_objs[2].text # <<>>

\* C9 (exact offsets for any split policy): whatever split_fn is configured,
\* the cursor advances past a fragment by the length of the fragment plus
\* the length of the separator split_fn consumed after it: when the offsets
\* of a fragment locate it in the original text, so do those of the next.
C9_ExactOffsetsAnyPolicy ==
    pc = "combine_to_groups" =>
        \A k \in 1..(Len(chunk_objs) - 1) :
            OffsetSlices[k] = chunk_objs[k].text =>
                OffsetSlices[k + 1] = chunk_objs[k + 1].text

NextSplit ==
    \/ CallSplitFn
    \/ PositionChunk
    \/ BuildChunks

SpecSplit == InitSplit /\ [][NextSplit]_vars

\* ===================================================================
\* The analysis loop: FullPipeline._analyze_groups   pipeline.py:219-255
\*                    LegacyPipeline.run             pipeline.py:295-319
\* and the Analyzer Port it calls: analyze_group     litellm_client.py:135-182
\*                                                   openai_client.py:50-86
\* ===================================================================

\* chunker.py:29 ("other") and app.py:46 ("speaker")
Speakers == {"speaker", "other"}

\* the k-th (1-based) chunk of a transcript: its speaker and its offsets as
\* split() numbers them for chunks of eight characters
ChunkOf(k, speaker) ==
    [speaker |-> speaker, start_char_id |-> 10 * (k - 1), end_char_id |-> 10 * (k - 1) + 8]

\* the windows over n chunks with the speakers spk, window k ending with
\* chunk k behind chunk k - 1: what the grouper emits for window_start = 0 and
\* max_chunks = 2
WindowsOver(n, spk) ==
    [k \in 1..n |->
        [items |-> IF k = 1 THEN <<ChunkOf(1, spk[1])>>
                   ELSE <<ChunkOf(k - 1, spk[k - 1]), ChunkOf(k, spk[k])>>]]

\* What one call of the external model can end in: an error of the call, or
\* a response whose parsed "detections" list is the one given.
PortOutcomes ==
    {[kind |-> "raise", detections |-> <<>>],
     [kind |-> "return", detections |-> <<>>],
     [kind |-> "return", detections |-> <<[mistake_slug |-> "ad_hominem"]>>]}

\* max_groups is None, or a ceiling the callers pass (app.py:140 passes None
\* for a setting that is not positive)
InitAnalyze ==
    /\ pc = "loop"
    /\ pipeline \in {"FullPipeline", "LegacyPipeline"}
    /\ \E n \in 0..MaxWindows : \E spk \in [1..n -> Speakers] :
           analysis_groups = WindowsOver(n, spk)
    /\ max_groups \in {{}} \cup {{m} : m \in 0..MaxCeiling}
    /\ sleep_between_calls_s \in {0, 1}
    /\ idx = 0
    /\ results = <<>>
    /\ consecutive_errors = 0
    /\ calls = <<>>
    /\ sleeps = <<>>
    /\ PortIdle
    /\ RunIdle
    /\ SplitIdle
    /\ chunk_objs = <<>>
    /\ max_tokens = 0
    /\ max_chunks = 0
    /\ window_start = 0
    /\ i = 0
    /\ curr_grp = <<>>
    /\ curr_sum = 0
    /\ groups = <<>>

\* what the analysis loop does not touch
outsideAnalyze == <<groupVars, splitVars, portVars, runVars>>

\* groups[:limit] holds this many windows (Python's slice for any integer)
SliceLen(total, lim) == IF lim >= 0 THEN Min(lim, total) ELSE Max(0, total + lim)

\* groups[idx] for a 0-based idx
GroupAt(k) == analysis_groups[k + 1]

\* group.items[-1]
LastItem(group) == group.items[Len(group.items)]

\* mutant of analyze_group: the fragment-level start is taken from the first
\* chunk of the window as the window-level start is
analyze_group_chunk_from_first(group_idx, group, detections) ==
    LET kept == SelectSeq(detections, LAMBDA det : det.mistake_slug # "")
    IN  [k \in 1..Len(kept) |->
            [group_idx |-> group_idx,
             mistake_slug |-> kept[k].mistake_slug,
             speaker_slug |-> LastItem(group).speaker,
             group_start_char_id |-> group.items[1].start_char_id,
             group_end_char_id |-> LastItem(group).end_char_id,
             chunk_start_char_id |-> group.items[1].start_char_id,
             chunk_end_char_id |-> LastItem(group).end_char_id]]

\* litellm_client.py:154-178, openai_client.py:67-86: the AnalysisResults
\* built from the parsed detections (slugs are modelled already stripped)
analyze_group(group_idx, group, detections) ==
    LET kept == SelectSeq(detections, LAMBDA det : det.mistake_slug # "")
    IN  [k \in 1..Len(kept) |->
            [group_idx |-> group_idx,
             mistake_slug |-> kept[k].mistake_slug,
             speaker_slug |-> LastItem(group).speaker,
             group_start_char_id |-> group.items[1].start_char_id,
             group_end_char_id |-> LastItem(group).end_char_id,
             chunk_start_char_id |-> LastItem(group).start_char_id,
             chunk_end_char_id |-> LastItem(group).end_char_id]]

\* history entry of one analyze_group call: the window, how the call ended,
\* and the video of FullPipeline.run it was made for (0 outside run())
CallEntry(k, out, returned) ==
    [idx |-> k, raised |-> out.kind = "raise", returned |-> returned, video |-> video]

\* ---- FullPipeline._analyze_groups

\* mutant of FullLimit: the ceiling is not applied
FullLimit_ignores_ceiling == Len(analysis_groups)

\* pipeline.py:232-233
FullLimit ==
    IF max_groups # {} THEN Min(Len(analysis_groups), CHOOSE m \in max_groups : TRUE)
    ELSE Len(analysis_groups)

\* pipeline.py:236: the windows enumerate(groups[:limit]) yields
FullEnumerated == SliceLen(Len(analysis_groups), FullLimit)

\* mutant of FullSkipRule: the first chunk of the window is looked at
FullSkipRule_first_item(group) == group.items[1].speaker = "other"

\* pipeline.py:237
FullSkipRule(group) == LastItem(group).speaker = "other"

\* mutant of FullTooMany: the loop stops one failure later
FullTooMany_one_late(n) == n >= 6

\* pipeline.py:248
FullTooMany(n) == n >= 5

\* mutant of FullPauses: the delay is not compared with zero
FullPauses_unconditional == sleep_between_calls_s >= 0

\* pipeline.py:252
FullPauses == sleep_between_calls_s # 0 /\ sleep_between_calls_s > 0

\* mutant of FullSkip: a skipped window resets the failure counter
FullSkip_resets_counter ==
    /\ pipeline = "FullPipeline"
    /\ pc = "loop"
    /\ idx < FullEnumerated
    /\ FullSkipRule(GroupAt(idx))
    /\ idx' = idx + 1
    /\ consecutive_errors' = 0
    /\ UNCHANGED <<pc, pipeline, analysis_groups, max_groups, sleep_between_calls_s,
                   results, calls, sleeps>>
    /\ UNCHANGED outsideAnalyze

\* pipeline.py:236-238: `continue`, which is outside the try statement
FullSkip ==
    /\ pipeline = "FullPipeline"
    /\ pc = "loop"
    /\ idx < FullEnumerated
    /\ FullSkipRule(GroupAt(idx))
    /\ idx' = idx + 1
    /\ UNCHANGED <<pc, pipeline, analysis_groups, max_groups, sleep_between_calls_s,
                   results, consecutive_errors, calls, sleeps>>
    /\ UNCHANGED outsideAnalyze

\* mutant of FullAnalyzeOk: a success leaves the failure counter as it is
FullAnalyzeOk_no_reset ==
    /\ pipeline = "FullPipeline"
    /\ pc = "loop"
    /\ idx < FullEnumerated
    /\ ~FullSkipRule(GroupAt(idx))
    /\ \E out \in {o \in PortOutcomes : o.kind = "return"} :
           LET analysis == analyze_group(idx, GroupAt(idx), out.detections)
           IN  /\ calls' = Append(calls, CallEntry(idx, out, analysis))
               /\ results' = results \o analysis
    /\ sleeps' = IF FullPauses THEN Append(sleeps, idx) ELSE sleeps
    /\ idx' = idx + 1
    /\ UNCHANGED <<pc, pipeline, analysis_groups, max_groups, sleep_between_calls_s,
                   consecutive_errors>>
    /\ UNCHANGED outsideAnalyze

\* mutant of FullAnalyzeOk: the failure counter is reset only by a call that
\* returned Detections
FullAnalyzeOk_reset_on_detections ==
    /\ pipeline = "FullPipeline"
    /\ pc = "loop"
    /\ idx < FullEnumerated
    /\ ~FullSkipRule(GroupAt(idx))
    /\ \E out \in {o \in PortOutcomes : o.kind = "return"} :
           LET analysis == analyze_group(idx, GroupAt(idx), out.detections)
           IN  /\ calls' = Append(calls, CallEntry(idx, out, analysis))
               /\ results' = results \o analysis
               /\ consecutive_errors' = IF analysis = <<>> THEN consecutive_errors ELSE 0
    /\ sleeps' = IF FullPauses THEN Append(sleeps, idx) ELSE sleeps
    /\ idx' = idx + 1
    /\ UNCHANGED <<pc, pipeline, analysis_groups, max_groups, sleep_between_calls_s>>
    /\ UNCHANGED outsideAnalyze

\* pipeline.py:240-243, 251-253: analyze_group returns
FullAnalyzeOk ==
    /\ pipeline = "FullPipeline"
    /\ pc = "loop"
    /\ idx < FullEnumerated
    /\ ~FullSkipRule(GroupAt(idx))
    /\ \E out \in {o \in PortOutcomes : o.kind = "return"} :
           LET analysis == analyze_group(idx, GroupAt(idx), out.detections)
           IN  /\ calls' = Append(calls, CallEntry(idx, out, analysis))
               /\ results' = results \o analysis
    /\ consecutive_errors' = 0
    /\ sleeps' = IF FullPauses THEN Append(sleeps, idx) ELSE sleeps
    /\ idx' = idx + 1
    /\ UNCHANGED <<pc, pipeline, analysis_groups, max_groups, sleep_between_calls_s>>
    /\ UNCHANGED outsideAnalyze

\* pipeline.py:240-241, 244-255: analyze_group raises; `finally` runs before
\* the `break` takes effect, and after the break the results are returned
FullAnalyzeFail ==
    /\ pipeline = "FullPipeline"
    /\ pc = "loop"
    /\ idx < FullEnumerated
    /\ ~FullSkipRule(GroupAt(idx))
    /\ \E out \in {o \in PortOutcomes : o.kind = "raise"} :
           calls' = Append(calls, CallEntry(idx, out, <<>>))
    /\ consecutive_errors' = consecutive_errors + 1
    /\ sleeps' = IF FullPauses THEN Append(sleeps, idx) ELSE sleeps
    /\ IF FullTooMany(consecutive_errors')
       THEN pc' = "returned" /\ idx' = idx
       ELSE pc' = pc /\ idx' = idx + 1
    /\ UNCHANGED <<pipeline, analysis_groups, max_groups, sleep_between_calls_s, results>>
    /\ UNCHANGED outsideAnalyze

\* pipeline.py:236, 255: groups[:limit] is exhausted, return results
FullReturn ==
    /\ pipeline = "FullPipeline"
    /\ pc = "loop"
    /\ idx >= FullEnumerated
    /\ pc' = "returned"
    /\ UNCHANGED analyzeVars
    /\ UNCHANGED outsideAnalyze

\* pipeline.py:255: what _analyze_groups hands to its caller
Output == results

\* ---- LegacyPipeline.run, from the loop on

\* pipeline.py:296-297
LegacyLimit ==
    IF max_groups # {} THEN Min(Len(analysis_groups), CHOOSE m \in max_groups : TRUE)
    ELSE Len(analysis_groups)

\* pipeline.py:301
LegacyEnumerated == SliceLen(Len(analysis_groups), LegacyLimit)

\* pipeline.py:302
LegacySkipRule(group) == LastItem(group).speaker = "other"

\* mutant of LegacyTooMany: the loop of LegacyPipeline.run stops one failure
\* later than the loop of FullPipeline._analyze_groups
LegacyTooMany_one_late(n) == n >= 6

\* pipeline.py:311
LegacyTooMany(n) == n >= 5

\* pipeline.py:315
LegacyPauses == sleep_between_calls_s # 0 /\ sleep_between_calls_s > 0

\* pipeline.py:301-303
LegacySkip ==
    /\ pipeline = "LegacyPipeline"
    /\ pc = "loop"
    /\ idx < LegacyEnumerated
    /\ LegacySkipRule(GroupAt(idx))
    /\ idx' = idx + 1
    /\ UNCHANGED <<pc, pipeline, analysis_groups, max_groups, sleep_between_calls_s,
                   results, consecutive_errors, calls, sleeps>>
    /\ UNCHANGED outsideAnalyze

\* pipeline.py:304-307, 314-316
LegacyAnalyzeOk ==
    /\ pipeline = "LegacyPipeline"
    /\ pc = "loop"
    /\ idx < LegacyEnumerated
    /\ ~LegacySkipRule(GroupAt(idx))
    /\ \E out \in {o \in PortOutcomes : o.kind = "return"} :
           LET analysis == analyze_group(idx, GroupAt(idx), out.detections)
           IN  /\ calls' = Append(calls, CallEntry(idx, out, analysis))
               /\ results' = results \o analysis
    /\ consecutive_errors' = 0
    /\ sleeps' = IF LegacyPauses THEN Append(sleeps, idx) ELSE sleeps
    /\ idx' = idx + 1
    /\ UNCHANGED <<pc, pipeline, analysis_groups, max_groups, sleep_between_calls_s>>
    /\ UNCHANGED outsideAnalyze

\* pipeline.py:304-305, 308-319: as above; after the break the results go to
\* the writer
LegacyAnalyzeFail ==
    /\ pipeline = "LegacyPipeline"
    /\ pc = "loop"
    /\ idx < LegacyEnumerated
    /\ ~LegacySkipRule(GroupAt(idx))
    /\ \E out \in {o \in PortOutcomes : o.kind = "raise"} :
           calls' = Append(calls, CallEntry(idx, out, <<>>))
    /\ consecutive_errors' = consecutive_errors + 1
    /\ sleeps' = IF LegacyPauses THEN Append(sleeps, idx) ELSE sleeps
    /\ IF LegacyTooMany(consecutive_errors')
       THEN pc' = "returned" /\ idx' = idx
       ELSE pc' = pc /\ idx' = idx + 1
    /\ UNCHANGED <<pipeline, analysis_groups, max_groups, sleep_between_calls_s, results>>
    /\ UNCHANGED outsideAnalyze

\* pipeline.py:301: groups[:limit] is exhausted and the loop is left; the
\* results go to the writer next (pipeline.py:318)
LegacyReturn ==
    /\ pipeline = "LegacyPipeline"
    /\ pc = "loop"
    /\ idx >= LegacyEnumerated
    /\ pc' = "returned"
    /\ UNCHANGED analyzeVars
    /\ UNCHANGED outsideAnalyze

NextAnalyze ==
    \/ FullSkip
    \/ FullAnalyzeOk
    \/ FullAnalyzeFail
    \/ FullReturn
    \/ LegacySkip
    \/ LegacyAnalyzeOk
    \/ LegacyAnalyzeFail
    \/ LegacyReturn

SpecAnalyze == InitAnalyze /\ [][NextAnalyze]_vars

\* -------------------------------------------------------------------
\* Properties of the analysis loop (checked under SpecAnalyze)
\* -------------------------------------------------------------------

\* the speaker of the anchor (last) fragment of window k, 0-based
AnchorSpeaker(k) == LastItem(GroupAt(k)).speaker

\* the number of windows below the max_groups ceiling
Eligible ==
    IF max_groups = {} THEN Len(analysis_groups)
    ELSE Min(Len(analysis_groups), CHOOSE m \in max_groups : TRUE)

\* the calls j-4 .. j of the history all failed
FiveFailedUpTo(j) == j >= 5 /\ \A d \in 0..4 : calls[j - d].raised

\* everything the calls of the history returned, in call order
RECURSIVE AllReturned(_)
AllReturned(cs) == IF cs = <<>> THEN <<>> ELSE Head(cs).returned \o AllReturned(Tail(cs))

\* the eligible windows from k on that are not skipped, in order
RECURSIVE EligibleNotSkipped(_)
EligibleNotSkipped(k) ==
    IF k >= Eligible THEN <<>>
    ELSE (IF AnchorSpeaker(k) = "other" THEN <<>> ELSE <<k>>) \o EligibleNotSkipped(k + 1)

CalledWindows == [j \in 1..Len(calls) |-> calls[j].idx]

\* C5 (P5, failure circuit breaker): once five consecutive Port calls have
\* failed, the loop is left and no Port call is made for a later window; the
\* result holds every Detection the successful calls returned.
C5_CircuitBreaker ==
    /\ \A j \in 1..Len(calls) : FiveFailedUpTo(j) => (j = Len(calls) /\ pc = "returned")
    /\ results = AllReturned(calls)

\* C5's case: a run that returned after five failures in a row, with the
\* Detections of an earlier window in its result and a later window that is
\* not skipped and was never called.
C5_Witness ==
    /\ pc = "returned"
    /\ FiveFailedUpTo(Len(calls))
    /\ calls[1].returned # <<>>
    /\ results # <<>>
    /\ \E k \in (calls[Len(calls)].idx + 1)..(Eligible - 1) : AnchorSpeaker(k) # "other"

\* C6 (P6, skip rule): a window whose anchor fragment has the speaker label
\* "other" is never passed to the Port and contributes no Detection; no
\* Detection of the result has "other" as its speaker.
C6_SkipRule ==
    /\ \A j \in 1..Len(calls) : AnchorSpeaker(calls[j].idx) # "other"
    /\ \A r \in 1..Len(results) :
           /\ results[r].speaker_slug # "other"
           /\ AnchorSpeaker(results[r].group_idx) # "other"

\* C6's case: a run that returned Detections after passing a window whose
\* anchor is "other" while its first fragment is not.
C6_Witness ==
    /\ pc = "returned"
    /\ results # <<>>
    /\ \E k \in 0..(idx - 1) :
           /\ AnchorSpeaker(k) = "other"
           /\ GroupAt(k).items[1].speaker = "speaker"
           /\ \E r \in 1..Len(results) : results[r].group_idx > k

\* C10 (termination in DONE): the loop can always go on until it has
\* returned; it returns before the last eligible window only with the
\* failure counter at five; and when no five calls in a row failed, the Port
\* was invoked exactly once on every eligible window that is not skipped.
C10_TerminationInDone ==
    /\ pc # "returned" => ENABLED NextAnalyze
    /\ (pc = "returned" /\ idx < Eligible) => consecutive_errors >= 5
    /\ (pc = "returned" /\ ~\E j \in 1..Len(calls) : FiveFailedUpTo(j))
           => CalledWindows = EligibleNotSkipped(0)

\* C10's case: a run that returned with failures among its calls, never five
\* in a row, a skipped window, and every other eligible window called.
C10_Witness ==
    /\ pc = "returned"
    /\ Len(calls) >= 6
    /\ Cardinality({j \in 1..Len(calls) : calls[j].raised}) >= 5
    /\ ~\E j \in 1..Len(calls) : FiveFailedUpTo(j)
    /\ \E k \in 0..(Eligible - 1) : AnchorSpeaker(k) = "other"

\* the number of failed calls the history cs ends with
RECURSIVE TrailingFailures(_)
TrailingFailures(cs) ==
    IF cs = <<>> THEN 0
    ELSE IF ~cs[Len(cs)].raised THEN 0
    ELSE 1 + TrailingFailures(SubSeq(cs, 1, Len(cs) - 1))

\* C11 (skip is neutral for the breaker): the failure counter is the number
\* of failed Port calls since the last call that returned, whatever windows
\* were skipped in between; once that number is five the loop has been left.
C11_SkipKeepsCounter ==
    /\ consecutive_errors = TrailingFailures(calls)
    /\ TrailingFailures(calls) >= 5 => pc = "returned"

\* C11's case: the breaker tripped on five failed calls that have a skipped
\* window between two of them.
C11_Witness ==
    /\ pc = "returned"
    /\ FiveFailedUpTo(Len(calls))
    /\ \E j \in (Len(calls) - 4)..(Len(calls) - 1) :
           /\ calls[j + 1].idx = calls[j].idx + 2
           /\ AnchorSpeaker(calls[j].idx + 1) = "other"

\* a step in which the Port was invoked and returned no Detection
EmptyAnswerStep ==
    /\ Len(calls') = Len(calls) + 1
    /\ ~calls'[Len(calls')].raised
    /\ calls'[Len(calls')].returned = <<>>

\* C12 as stated (empty answer is neutral): a Port call that returns an empty
\* detection list appends nothing, lets the run continue and leaves the
\* failure counter at the value it had before the call.
C12_EmptyAnswerLeavesCounter ==
    [][EmptyAnswerStep =>
           /\ results' = results
           /\ pc' = "loop"
           /\ consecutive_errors' = consecutive_errors]_vars

\* C12 as amended (empty answer is a success): a Port call that returns an
\* empty detection list appends nothing, lets the run continue with the next
\* window and sets the failure counter to 0, as every call that returns does.
C12_EmptyAnswerResetsCounter ==
    [][EmptyAnswerStep =>
           /\ results' = results
           /\ pc' = "loop"
           /\ idx' = idx + 1
           /\ consecutive_errors' = 0]_vars

\* C12's case: the last call returned an empty list right after four failed
\* calls, and the loop goes on with the counter at 0.
C12_Witness ==
    /\ pc = "loop"
    /\ Len(calls) >= 5
    /\ \A j \in (Len(calls) - 4)..(Len(calls) - 1) : calls[j].raised
    /\ ~calls[Len(calls)].raised
    /\ calls[Len(calls)].returned = <<>>
    /\ consecutive_errors = 0
    /\ idx = calls[Len(calls)].idx + 1

\* the windows the loop has dealt with, in order: those before idx, and
\* window idx too when the breaker left the loop on it
WindowsDone ==
    [k \in 1..(IF pc = "returned" /\ idx < Eligible THEN idx + 1 ELSE idx) |-> k - 1]

\* C13 as stated (pacing after every window): with a positive delay the
\* loop has paused exactly once after each window it dealt with, whether the
\* call succeeded, the window was skipped, or the call failed; with a delay
\* of zero it has never paused.
C13_PauseAfterEveryWindow ==
    IF sleep_between_calls_s > 0 THEN sleeps = WindowsDone ELSE sleeps = <<>>

\* C13 as amended (pacing after every call): with a positive delay the loop
\* has paused exactly once after each window the Port was invoked on, whether
\* the call succeeded or failed (the failed call that trips the breaker
\* included), and never after a skipped window; with a delay of zero it has
\* never paused.
C13_PauseAfterEveryCall ==
    IF sleep_between_calls_s > 0 THEN sleeps = CalledWindows ELSE sleeps = <<>>

\* C13's case: a run with a positive delay that returned on the fifth failure
\* in a row after a successful call and a skipped window.
C13_Witness ==
    /\ pc = "returned"
    /\ sleep_between_calls_s > 0
    /\ FiveFailedUpTo(Len(calls))
    /\ ~calls[1].raised
    /\ \E k \in 0..(idx - 1) : AnchorSpeaker(k) = "other"
    /\ Len(sleeps) = Len(calls)

\* C14 (window ceiling): with max_groups = m >= 0 the loop never goes past
\* window m - 1 and the Port is never invoked on a window with index >= m;
\* with max_groups absent a run that no breaker stopped has invoked the Port
\* on every window that is not skipped.
C14_WindowCeiling ==
    /\ \A m \in max_groups :
           /\ idx <= m
           /\ \A j \in 1..Len(calls) : calls[j].idx < m
    /\ (max_groups = {} /\ pc = "returned" /\ consecutive_errors < 5)
           => /\ idx = Len(analysis_groups)
              /\ \A k \in 0..(Len(analysis_groups) - 1) :
                     AnchorSpeaker(k) # "other" => \E j \in 1..Len(calls) : calls[j].idx = k

\* C14's case: a run under a ceiling m >= 1 that returned after calling the
\* Port on window m - 1, with a window m that is not skipped left uncalled.
C14_Witness ==
    /\ pc = "returned"
    /\ \E m \in max_groups :
           /\ m >= 1
           /\ m < Len(analysis_groups)
           /\ AnchorSpeaker(m) # "other"
           /\ \E j \in 1..Len(calls) : calls[j].idx = m - 1
           /\ idx = m

\* the terminal state of a run that has returned: STOPPED_FAILURES when the
\* breaker left the loop, DONE otherwise
TerminalState == IF consecutive_errors >= 5 THEN "STOPPED_FAILURES" ELSE "DONE"

\* C15 (terminal-state indicator): the output lets the caller tell a run
\* that ended in STOPPED_FAILURES from a run that ended in DONE with the same
\* Detections. A run over no window ends in DONE with no Detection, so a run
\* that returns no Detection has ended in DONE.
C15_TerminalStateIndicator ==
    (pc = "returned" /\ Output = <<>>) => TerminalState = "DONE"

\* the anchor fragment of the window a Detection was made for
AnchorOf(det) == LastItem(GroupAt(det.group_idx))

\* C16 as stated (anchor span twice): every Detection carries the span of
\* its window's anchor fragment as its window-level offsets and as its
\* fragment-level offsets.
C16_AnchorSpanTwice ==
    \A r \in 1..Len(results) :
        /\ results[r].group_start_char_id = AnchorOf(results[r]).start_char_id
        /\ results[r].group_end_char_id = AnchorOf(results[r]).end_char_id
        /\ results[r].chunk_start_char_id = AnchorOf(results[r]).start_char_id
        /\ results[r].chunk_end_char_id = AnchorOf(results[r]).end_char_id

\* C16 as amended (window span and anchor span): every Detection carries the
\* span of its window's anchor fragment as its fragment-level offsets, and as
\* its window-level offsets the span from the start of the window's first
\* fragment to the end of the anchor; the two agree for a window of one
\* fragment.
C16_WindowAndAnchorSpan ==
    \A r \in 1..Len(results) :
        LET group == GroupAt(results[r].group_idx)
        IN  /\ results[r].chunk_start_char_id = LastItem(group).start_char_id
            /\ results[r].chunk_end_char_id = LastItem(group).end_char_id
            /\ results[r].group_start_char_id = group.items[1].start_char_id
            /\ results[r].group_end_char_id = LastItem(group).end_char_id
            /\ Len(group.items) = 1 =>
                   results[r].group_start_char_id = results[r].chunk_start_char_id

\* C16's case: the result holds a Detection of a window of one fragment and
\* a Detection of a window of two.
C16_Witness ==
    /\ \E r \in 1..Len(results) : Len(GroupAt(results[r].group_idx).items) = 1
    /\ \E r \in 1..Len(results) :
           /\ Len(GroupAt(results[r].group_idx).items) = 2
           /\ results[r].group_start_char_id < results[r].chunk_start_char_id

\* C28 (the two loops agree): the loop of LegacyPipeline.run and
\* FullPipeline._analyze_groups are the same function of the groups, the
\* ceiling, the delay and the answers of the Port. For either of them, after
\* every window: the Port calls made are the first of the eligible windows
\* that are not skipped, in order; there has been one pause per call iff the
\* delay is positive; the counter is the number of failures the history ends
\* with; the result is what the calls returned; and the loop has stopped
\* iff that counter has reached five or no such window is left.
C28_LoopsAgree ==
    LET due == EligibleNotSkipped(0)
    IN  /\ Len(calls) <= Len(due)
        /\ CalledWindows = SubSeq(due, 1, Len(calls))
        /\ sleeps = IF sleep_between_calls_s > 0 THEN CalledWindows ELSE <<>>
        /\ consecutive_errors = TrailingFailures(calls)
        /\ results = AllReturned(calls)
        /\ pc = "loop" => TrailingFailures(calls) < 5
        /\ pc = "returned" => (TrailingFailures(calls) >= 5 \/ Len(calls) = Len(due))

\* the loop of the given pipeline has stopped after five failures that
\* followed a skipped window and a call that returned a Detection, with a
\* pause after every call
StoppedAfterFailures(p) ==
    /\ pipeline = p
    /\ pc = "returned"
    /\ sleeps # <<>>
    /\ results # <<>>
    /\ TrailingFailures(calls) = 5
    /\ \E k \in 0..(idx - 1) : AnchorSpeaker(k) = "other"

\* C28's case: LegacyPipeline.run has reached a state of that kind (and so
\* does FullPipeline._analyze_groups, see C28_WitnessFull).
C28_Witness == StoppedAfterFailures("LegacyPipeline")

C28_WitnessFull == StoppedAfterFailures("FullPipeline")

\* ===================================================================
\* LiteLLMChain.analyze_group, LiteLLMChain._parse_json
\*                                         litellm_client.py:135-214
\* OpenAILLMChain.analyze_group, OpenAILLMChain._parse_json
\*                                         openai_client.py:50-102
\* ===================================================================

\* ---- json.loads for documents made of objects, arrays, strings without
\* escapes, unsigned integers and null.  A parsed value is a record of one
\* shape: its Python type, the keys of a dict, the members of a list or the
\* values of a dict, and the characters of a str or an int.

JDict(keys, items) == [type |-> "dict", keys |-> keys, items |-> items, chars |-> <<>>]

JList(items) == [type |-> "list", keys |-> <<>>, items |-> items, chars |-> <<>>]

JStr(chars) == [type |-> "str", keys |-> <<>>, items |-> <<>>, chars |-> chars]

JInt(chars) == [type |-> "int", keys |-> <<>>, items |-> <<>>, chars |-> chars]

JNone == [type |-> "NoneType", keys |-> <<>>, items |-> <<>>, chars |-> <<>>]

\* a parse that stopped with a JSONDecodeError
DecodeError == [ok |-> FALSE, val |-> JNone, next |-> 0]

\* a value parsed, the scan goes on at position next
Decoded(val, next) == [ok |-> TRUE, val |-> val, next |-> next]

\* the first position >= p of t that holds no whitespace (Len(t) + 1 at the end)
RECURSIVE SkipWs(_, _)
SkipWs(t, p) == IF p <= Len(t) /\ t[p] \in Whitespace THEN SkipWs(t, p + 1) ELSE p

\* t holds the character c at position p
At(t, p, c) == p >= 1 /\ p <= Len(t) /\ t[p] = c

DoubleQuote == <<"\"">>

\* a string starting with the quote at position p
ParseString(t, p) ==
    LET q == Find(t, DoubleQuote, p + 1)
    IN  IF At(t, p, "\"") /\ q # 0 THEN Decoded(JStr(SubSeq(t, p + 1, q - 1)), q + 1)
        ELSE DecodeError

RECURSIVE ParseValue(_, _)
RECURSIVE ParseMembers(_, _, _, _)
RECURSIVE ParseElements(_, _, _)

\* the members of an object from position p on, after the pairs in keys/items
ParseMembers(t, p, keys, items) ==
    LET key == ParseString(t, SkipWs(t, p))
        colon == SkipWs(t, key.next)
        member == ParseValue(t, colon + 1)
        after == SkipWs(t, member.next)
    IN  IF ~key.ok \/ ~At(t, colon, ":") THEN DecodeError
        ELSE IF ~member.ok THEN DecodeError
        ELSE IF At(t, after, ",")
             THEN ParseMembers(t, after + 1, Append(keys, key.val.chars), Append(items, member.val))
        ELSE IF At(t, after, "}")
             THEN Decoded(JDict(Append(keys, key.val.chars), Append(items, member.val)), after + 1)
        ELSE DecodeError

\* the elements of an array from position p on, after the elements in items
ParseElements(t, p, items) ==
    LET element == ParseValue(t, p)
        after == SkipWs(t, element.next)
    IN  IF ~element.ok THEN DecodeError
        ELSE IF At(t, after, ",") THEN ParseElements(t, after + 1, Append(items, element.val))
        ELSE IF At(t, after, "]") THEN Decoded(JList(Append(items, element.val)), after + 1)
        ELSE DecodeError

\* the value that starts at the first position >= p0 that is no whitespace
ParseValue(t, p0) ==
    LET p == SkipWs(t, p0)
        inner == SkipWs(t, p + 1)
        digits == Plus(t, p, Digits)
    IN  IF p > Len(t) THEN DecodeError
        ELSE IF t[p] = "{" THEN
            (IF At(t, inner, "}") THEN Decoded(JDict(<<>>, <<>>), inner + 1)
             ELSE ParseMembers(t, p + 1, <<>>, <<>>))
        ELSE IF t[p] = "[" THEN
            (IF At(t, inner, "]") THEN Decoded(JList(<<>>), inner + 1)
             ELSE ParseElements(t, p + 1, <<>>))
        ELSE IF t[p] = "\"" THEN ParseString(t, p)
        ELSE IF t[p] \in Digits THEN Decoded(JInt(SubSeq(t, p, digits - 1)), digits)
        ELSE IF p + 3 <= Len(t) /\ SubSeq(t, p, p + 3) = <<"n", "u", "l", "l">>
             THEN Decoded(JNone, p + 4)
        ELSE DecodeError

\* json.loads(raw): one value and nothing but whitespace after it
json_loads(raw) ==
    LET parsed == ParseValue(raw, 1)
    IN  IF parsed.ok /\ SkipWs(raw, parsed.next) > Len(raw) THEN parsed ELSE DecodeError

\* ---- the Python operations the two clients apply to the parsed value

\* Python's t[a:b] for a >= 0 and any b (a negative b counts from the end)
PySlice(t, a, b) == Slice(t, a, IF b < 0 THEN Max(0, Len(t) + b) ELSE b)

\* dict.get(key, default): the value of the last pair with that key
DictGet(d, key, default) ==
    LET hits == {k \in 1..Len(d.keys) : d.keys[k] = key}
    IN  IF hits = {} THEN default ELSE d.items[CHOOSE k \in hits : \A h \in hits : h <= k]

\* str(v) for the values a slug can be: a str is itself, an int its digits,
\* None is "None"; a list or a dict prints at least its brackets
PyStr(v) ==
    IF v.type \in {"str", "int"} THEN v.chars
    ELSE IF v.type = "NoneType" THEN <<"N", "o", "n", "e">>
    ELSE IF v.type = "list" THEN <<"[", "]">>
    ELSE <<"{", "}">>

\* the TLA+ string that stands for a str of the program: "" for the empty one
AsSlug(chars) == IF chars = <<>> THEN "" ELSE ToString(chars)

\* the grave accent, which a TLA+ string cannot hold: the character "^" stands
\* for it in every response text
GraveAccent == "^"

Fence == <<GraveAccent, GraveAccent, GraveAccent>>

FenceJson == Fence \o <<"j", "s", "o", "n">>

KeyDetections == <<"d", "e", "t", "e", "c", "t", "i", "o", "n", "s">>

KeyMistakeSlug == <<"m", "i", "s", "t", "a", "k", "e", "_", "s", "l", "u", "g">>

\* litellm_client.py:193-200: the text between the code fences, if any; a
\* find() that fails gives -1, which the slice takes as "but the last one"
StripFences(raw) ==
    LET json_at == Find(raw, FenceJson, 1)
        fence_at == Find(raw, Fence, 1)
        start == IF json_at # 0 THEN (json_at - 1) + 7 ELSE (fence_at - 1) + 3
        end == Find(raw, Fence, start + 1) - 1
    IN  IF fence_at = 0 THEN raw ELSE Strip(PySlice(raw, start, end))


\* ---- the two clients

\* what a call of the external model can end in: an error of the call, a
\* response without content (None), or a response with a text
Raise == [kind |-> "raise", content |-> <<>>]

NoContent == [kind |-> "no_content", content |-> <<>>]

Response(content) == [kind |-> "response", content |-> content]

\* what analyze_group ends in
Raised(error) == [kind |-> "raise", error |-> error, results |-> <<>>]

Returned(analysis) == [kind |-> "return", error |-> "", results |-> analysis]

\* mutant of DetectionsOf: the value under "detections" is returned without
\* the isinstance check
DetectionsOf_unchecked(data) ==
    IF data.type = "dict" THEN DictGet(data, KeyDetections, JList(<<>>))
    ELSE IF data.type = "list" THEN data
    ELSE JList(<<>>)

\* litellm_client.py:203-208, openai_client.py:95-100: the branches on the
\* parsed data that both _parse_json share
DetectionsOf(data) ==
    IF data.type = "dict"
    THEN LET items == DictGet(data, KeyDetections, JList(<<>>))
         IN  IF items.type = "list" THEN items ELSE JList(<<>>)
    ELSE IF data.type = "list" THEN data
    ELSE JList(<<>>)

\* litellm_client.py:184-214; `in` on None is a TypeError, which line 212
\* catches as it catches the JSONDecodeError of line 209
LiteLLMChain_parse_json(raw) ==
    IF raw.kind = "no_content" THEN JList(<<>>)
    ELSE LET loaded == json_loads(StripFences(raw.content))
         IN  IF loaded.ok THEN DetectionsOf(loaded.val) ELSE JList(<<>>)

\* openai_client.py:88-102
OpenAILLMChain_parse_json(raw) ==
    IF raw.kind = "no_content" THEN JList(<<>>)
    ELSE LET loaded == json_loads(raw.content)
         IN  IF loaded.ok THEN DetectionsOf(loaded.val) ELSE JList(<<>>)

\* `for det in detections`: the members of a list, the keys of a dict, the
\* characters of a str; an int and None are not iterable
Iterable(v) == v.type \in {"list", "dict", "str"}

Iterated(v) ==
    IF v.type = "list" THEN v.items
    ELSE IF v.type = "dict" THEN [k \in 1..Len(v.keys) |-> JStr(v.keys[k])]
    ELSE [k \in 1..Len(v.chars) |-> JStr(<<v.chars[k]>>)]

\* litellm_client.py:156, openai_client.py:69
SlugOf(det) == AsSlug(Strip(PyStr(DictGet(det, KeyMistakeSlug, JStr(<<>>)))))

\* litellm_client.py:154-178, openai_client.py:67-86: the loop over the
\* detections; det.get on anything but a dict is an AttributeError, a `for`
\* over an int or None a TypeError
ResultsOf(group_idx, group, detections) ==
    IF ~Iterable(detections) THEN Raised("TypeError")
    ELSE IF \E k \in 1..Len(Iterated(detections)) : Iterated(detections)[k].type # "dict"
         THEN Raised("AttributeError")
    ELSE Returned(analyze_group(group_idx, group,
             [k \in 1..Len(Iterated(detections)) |->
                 [mistake_slug |-> SlugOf(Iterated(detections)[k])]]))

\* mutant of LiteLLMChain_analyze_group: a failed call is answered with an
\* empty list
LiteLLMChain_analyze_group_swallows(group_idx, group, called) ==
    IF called.kind = "raise" THEN Returned(<<>>)
    ELSE LET out == ResultsOf(group_idx, group, LiteLLMChain_parse_json(called))
         IN  IF out.kind = "raise" THEN Raised("RuntimeError") ELSE out

\* litellm_client.py:135-182: every exception of the try block, the one of
\* completion() included, is raised again as a RuntimeError
LiteLLMChain_analyze_group(group_idx, group, called) ==
    IF called.kind = "raise" THEN Raised("RuntimeError")
    ELSE LET out == ResultsOf(group_idx, group, LiteLLMChain_parse_json(called))
         IN  IF out.kind = "raise" THEN Raised("RuntimeError") ELSE out

\* openai_client.py:50-86: no try statement, the error of invoke() propagates
OpenAILLMChain_analyze_group(group_idx, group, called) ==
    IF called.kind = "raise" THEN Raised("InvokeError")
    ELSE ResultsOf(group_idx, group, OpenAILLMChain_parse_json(called))

Clients == {"LiteLLMChain", "OpenAILLMChain"}

\* pipeline.py:241: self.analyzer.analyze_group(idx, group, mistakes)
AnalyzerCall(group_idx, group, called) ==
    IF client = "LiteLLMChain" THEN LiteLLMChain_analyze_group(group_idx, group, called)
    ELSE OpenAILLMChain_analyze_group(group_idx, group, called)

\* ---- response texts

Quoted(chars) == DoubleQuote \o chars \o DoubleQuote

Pair(key, doc) == Quoted(key) \o <<":">> \o doc

Object(body) == <<"{">> \o body \o <<"}">>

Array(body) == <<"[">> \o body \o <<"]">>

\* mistakes_catalog.py:7-14: the slugs of self.catalog.list(), one short slug
\* standing for the entries of the catalog
mistakes == {<<"a", "d">>}

\* one detection object, with a slug of the catalog
DetectionDoc == Object(Pair(KeyMistakeSlug, Quoted(<<"a", "d">>)))

\* one detection object whose slug no entry of the catalog has
OffCatalogDoc == Object(Pair(KeyMistakeSlug, Quoted(<<"z", "z">>)))

\* texts a model answers with: no JSON at all, JSON of the expected shape,
\* and JSON of other shapes
Payloads ==
    {<<>>,
     <<"n", "o">>,
     <<"{">>,
     <<"1">>,
     <<"n", "u", "l", "l">>,
     Array(<<>>),
     Array(DetectionDoc),
     Array(<<"1">>),
     Object(<<>>),
     Object(Pair(<<"x">>, <<"1">>)),
     Object(Pair(KeyDetections, Array(<<>>))),
     Object(Pair(KeyDetections, Array(DetectionDoc))),
     Object(Pair(KeyDetections, Array(OffCatalogDoc))),
     Object(Pair(KeyDetections, Array(DetectionDoc)) \o <<" ">>) \o <<"\n">>,
     Object(Pair(KeyDetections, Array(Object(<<>>)))),
     Object(Pair(KeyDetections, Array(Object(Pair(KeyMistakeSlug, Quoted(<<" ">>)))))),
     Object(Pair(KeyDetections, Array(<<"1">>))),
     Object(Pair(KeyDetections, <<"1">>)),
     Object(Pair(KeyDetections, <<"n", "u", "l", "l">>)),
     Object(Pair(KeyDetections, Quoted(<<"a", "d">>))),
     Object(Pair(KeyDetections, Object(Pair(<<"x">>, <<"1">>))))}

\* the payloads that are also sent inside code fences
FencedPayloads ==
    {<<"n", "o">>,
     Object(Pair(KeyDetections, Array(DetectionDoc))),
     Object(Pair(KeyDetections, <<"1">>))}

Contents ==
    Payloads
    \cup {FenceJson \o <<"\n">> \o doc \o <<"\n">> \o Fence : doc \in FencedPayloads}
    \cup {<<"n", "o", " ">> \o Fence \o doc \o Fence : doc \in FencedPayloads}
    \cup {FenceJson \o doc \o <<"\n">> : doc \in FencedPayloads}

ExternalOutcomes == {Raise, NoContent} \cup {Response(content) : content \in Contents}

\* ---- FullPipeline._analyze_groups driving one of the clients, with the
\* default arguments max_groups = None and sleep_between_calls_s = 0.0
\* (pipeline.py:223-224) over windows whose anchors all have the speaker
\* app.py:46 gives every chunk

InitPort ==
    /\ pc = "loop"
    /\ pipeline = "FullPipeline"
    /\ client \in Clients
    /\ response = [kind |-> "none"]
    /\ \E n \in 0..MaxPortWindows :
           analysis_groups = WindowsOver(n, [k \in 1..n |-> "speaker"])
    /\ max_groups = {}
    /\ sleep_between_calls_s = 0
    /\ idx = 0
    /\ results = <<>>
    /\ consecutive_errors = 0
    /\ calls = <<>>
    /\ sleeps = <<>>
    /\ RunIdle
    /\ SplitIdle
    /\ chunk_objs = <<>>
    /\ max_tokens = 0
    /\ max_chunks = 0
    /\ window_start = 0
    /\ i = 0
    /\ curr_grp = <<>>
    /\ curr_sum = 0
    /\ groups = <<>>

\* litellm_client.py:136, openai_client.py:64: the call of the external model
\* inside analyze_group, which pipeline.py:241 has just entered
PortCall ==
    /\ pipeline = "FullPipeline"
    /\ pc = "loop"
    /\ idx < FullEnumerated
    /\ ~FullSkipRule(GroupAt(idx))
    /\ \E called \in ExternalOutcomes : response' = called
    /\ pc' = "analyze_group"
    /\ UNCHANGED <<analyzeVars, client, groupVars, splitVars, runVars>>

\* analyze_group returns: pipeline.py:241-243, 251-253
PortReturn ==
    /\ pc = "analyze_group"
    /\ LET out == AnalyzerCall(idx, GroupAt(idx), response)
       IN  /\ out.kind = "return"
           /\ calls' = Append(calls, CallEntry(idx, out, out.results))
           /\ results' = results \o out.results
    /\ consecutive_errors' = 0
    /\ sleeps' = IF FullPauses THEN Append(sleeps, idx) ELSE sleeps
    /\ idx' = idx + 1
    /\ pc' = "loop"
    /\ UNCHANGED <<pipeline, analysis_groups, max_groups, sleep_between_calls_s>>
    /\ UNCHANGED <<portVars, groupVars, splitVars, runVars>>

\* mutant of PortRaise: a window whose call failed is tried again
PortRaise_retries ==
    /\ pc = "analyze_group"
    /\ LET out == AnalyzerCall(idx, GroupAt(idx), response)
       IN  /\ out.kind = "raise"
           /\ calls' = Append(calls, CallEntry(idx, out, <<>>))
    /\ consecutive_errors' = consecutive_errors + 1
    /\ sleeps' = IF FullPauses THEN Append(sleeps, idx) ELSE sleeps
    /\ IF FullTooMany(consecutive_errors')
       THEN pc' = "returned" /\ idx' = idx
       ELSE pc' = "loop" /\ idx' = idx
    /\ UNCHANGED <<pipeline, analysis_groups, max_groups, sleep_between_calls_s, results>>
    /\ UNCHANGED <<portVars, groupVars, splitVars, runVars>>

\* analyze_group raises: pipeline.py:244-255
PortRaise ==
    /\ pc = "analyze_group"
    /\ LET out == AnalyzerCall(idx, GroupAt(idx), response)
       IN  /\ out.kind = "raise"
           /\ calls' = Append(calls, CallEntry(idx, out, <<>>))
    /\ consecutive_errors' = consecutive_errors + 1
    /\ sleeps' = IF FullPauses THEN Append(sleeps, idx) ELSE sleeps
    /\ IF FullTooMany(consecutive_errors')
       THEN pc' = "returned" /\ idx' = idx
       ELSE pc' = "loop" /\ idx' = idx + 1
    /\ UNCHANGED <<pipeline, analysis_groups, max_groups, sleep_between_calls_s, results>>
    /\ UNCHANGED <<portVars, groupVars, splitVars, runVars>>

NextPort ==
    \/ PortCall
    \/ PortReturn
    \/ PortRaise
    \/ FullReturn

SpecPort == InitPort /\ [][NextPort]_vars

\* -------------------------------------------------------------------
\* Properties of the clients under the loop (checked under SpecPort)
\* -------------------------------------------------------------------

\* the text a client hands to json.loads
PayloadOf(c, content) == IF c = "LiteLLMChain" THEN StripFences(content) ELSE content

\* a response was received and its text is not valid JSON, or is an object
\* without a "detections" key, or an object whose "detections" is not a list
Uninterpretable(c, called) ==
    /\ called.kind = "response"
    /\ LET loaded == json_loads(PayloadOf(c, called.content))
       IN  \/ ~loaded.ok
           \/ /\ loaded.val.type = "dict"
              /\ \A k \in 1..Len(loaded.val.keys) :
                     loaded.val.keys[k] = KeyDetections => loaded.val.items[k].type # "list"

\* the last call of the history
LastCall(cs) == cs[Len(cs)]

\* C17 (uninterpretable response is an empty answer): when the response that
\* was received is not valid structured data, has no detections key, or has
\* a detections value that is not a list, analyze_group returns an empty
\* list and does not raise: nothing is appended, the failure counter is not
\* incremented and the loop goes on.
C17_UninterpretableIsEmpty ==
    [][(pc = "analyze_group" /\ Uninterpretable(client, response)) =>
           /\ ~LastCall(calls').raised
           /\ LastCall(calls').returned = <<>>
           /\ results' = results
           /\ consecutive_errors' = 0
           /\ pc' = "loop"
           /\ idx' = idx + 1]_vars

\* C17's case: the last call answered an uninterpretable response with an
\* empty list, after a call that failed, and the loop goes on.
C17_Witness ==
    /\ pc = "loop"
    /\ Len(calls) >= 2
    /\ Uninterpretable(client, response)
    /\ calls[Len(calls) - 1].raised
    /\ ~LastCall(calls).raised
    /\ LastCall(calls).returned = <<>>
    /\ consecutive_errors = 0

\* C18 (call failure is counted): when the call of the external model fails,
\* analyze_group raises and returns no list; the loop appends nothing, adds
\* exactly one to the failure counter, and goes on with the next window
\* unless the counter has reached five, in which case it returns.
C18_CallFailureCounted ==
    [][(pc = "analyze_group" /\ response.kind = "raise") =>
           /\ LastCall(calls').raised
           /\ LastCall(calls').returned = <<>>
           /\ results' = results
           /\ consecutive_errors' = consecutive_errors + 1
           /\ IF consecutive_errors' >= 5
              THEN pc' = "returned"
              ELSE pc' = "loop" /\ idx' = idx + 1]_vars

\* C18's case: a run that went on after each of four failed calls and
\* returned on the fifth, with the external call failing in the last one.
C18_Witness ==
    /\ pc = "returned"
    /\ response.kind = "raise"
    /\ Len(calls) = 5
    /\ FiveFailedUpTo(5)
    /\ consecutive_errors = 5
    /\ results = <<>>

\* ===================================================================
\* FullPipeline.run                                 pipeline.py:131-217
\* LegacyPipeline.run                               pipeline.py:280-319
\* ===================================================================

\* the calls of a video's try block that can raise (pipeline.py:174-187)
FullSteps == {"download", "transcribe", "save", "split", "catalog"}

\* the calls before the loop of LegacyPipeline.run (pipeline.py:288-293)
LegacySteps == {"download", "load_text", "split", "catalog"}

\* what chunker.split can return for a transcript
RunGroups ==
    UNION {{WindowsOver(n, spk) : spk \in [1..n -> Speakers]} : n \in 0..MaxRunWindows}

RaisedBy(step) == [kind |-> "raise", error |-> step]

ReturnedValue(value) == [kind |-> "return", value |-> value]

\* run() is entered with its arguments; nothing has been searched or loaded
InitRun ==
    /\ pc = "run"
    /\ pipeline \in {"FullPipeline", "LegacyPipeline"}
    /\ max_groups \in {{}, {1}}
    /\ sleep_between_calls_s = 0
    /\ analysis_groups = <<>>
    /\ idx = 0
    /\ results = <<>>
    /\ consecutive_errors = 0
    /\ calls = <<>>
    /\ sleeps = <<>>
    /\ RunIdle
    /\ PortIdle
    /\ SplitIdle
    /\ chunk_objs = <<>>
    /\ max_tokens = 0
    /\ max_chunks = 0
    /\ window_start = 0
    /\ i = 0
    /\ curr_grp = <<>>
    /\ curr_sum = 0
    /\ groups = <<>>

\* what run() leaves alone outside the analysis loop
outsideRun == <<pipeline, max_groups, sleep_between_calls_s, groupVars, splitVars, portVars>>

\* the local variables of the analysis loop
loopVars == <<analysis_groups, idx, results, consecutive_errors, calls, sleeps>>

\* pipeline.py:158: the search raises, outside every try statement
FullSearchRaises ==
    /\ pipeline = "FullPipeline"
    /\ pc = "run"
    /\ outcome' = RaisedBy("search")
    /\ pc' = "run_raised"
    /\ UNCHANGED <<videos, video, all_results, processed_videos, errors, sink>>
    /\ UNCHANGED <<loopVars, outsideRun>>

\* pipeline.py:158-169: the search returns; no video ends the run at once
FullSearch ==
    /\ pipeline = "FullPipeline"
    /\ pc = "run"
    /\ \E found \in 0..MaxVideos :
           /\ videos' = found
           /\ IF found = 0
              THEN /\ outcome' = ReturnedValue([videos |-> <<>>, results_path |-> "None",
                                                total_mistakes |-> 0])
                   /\ pc' = "run_returned"
                   /\ video' = video
              ELSE /\ outcome' = outcome
                   /\ pc' = "video"
                   /\ video' = 1
    /\ all_results' = <<>>
    /\ processed_videos' = <<>>
    /\ UNCHANGED <<errors, sink>>
    /\ UNCHANGED <<loopVars, outsideRun>>

\* mutant of FullVideoRaises: the error of the video leaves run()
FullVideoRaises_propagates ==
    /\ pipeline = "FullPipeline"
    /\ pc = "video"
    /\ video <= videos
    /\ \E step \in FullSteps : outcome' = RaisedBy(step)
    /\ pc' = "run_raised"
    /\ UNCHANGED <<videos, video, all_results, processed_videos, errors, sink>>
    /\ UNCHANGED <<loopVars, outsideRun>>

\* pipeline.py:169-187, 204-206: a call of the video's try block raises; the
\* handler logs the error and goes on with the next video
FullVideoRaises ==
    /\ pipeline = "FullPipeline"
    /\ pc = "video"
    /\ video <= videos
    /\ \E step \in FullSteps : errors' = Append(errors, [video_id |-> video, step |-> step])
    /\ video' = video + 1
    /\ UNCHANGED <<pc, videos, all_results, processed_videos, sink, outcome>>
    /\ UNCHANGED <<loopVars, outsideRun>>

\* pipeline.py:169-193, 229-236: download, transcription and split succeed
\* and _analyze_groups is entered with the groups of the video, which split
\* has taken from `transcripts`; results and consecutive_errors are locals of
\* _analyze_groups and start anew, the history of the Port calls goes on
VideoAnalyze(transcripts) ==
    /\ pipeline = "FullPipeline"
    /\ pc = "video"
    /\ video <= videos
    /\ analysis_groups' \in transcripts
    /\ idx' = 0
    /\ results' = <<>>
    /\ consecutive_errors' = 0
    /\ calls' = calls
    /\ sleeps' = <<>>
    /\ pc' = "loop"
    /\ UNCHANGED <<runVars, outsideRun>>

FullVideoAnalyze == VideoAnalyze(RunGroups)

\* mutant of FullCollect: the Detections of the video are kept but its entry
\* in processed_videos is lost
FullCollect_entry_lost ==
    /\ pipeline = "FullPipeline"
    /\ pc = "returned"
    /\ all_results' = all_results \o Output
    /\ video' = video + 1
    /\ pc' = "video"
    /\ UNCHANGED <<videos, processed_videos, errors, sink, outcome>>
    /\ UNCHANGED <<loopVars, outsideRun>>

\* pipeline.py:188-202: _analyze_groups has returned video_results
FullCollect ==
    /\ pipeline = "FullPipeline"
    /\ pc = "returned"
    /\ all_results' = all_results \o Output
    /\ processed_videos' =
           Append(processed_videos, [video_id |-> video, mistakes_found |-> Len(Output)])
    /\ video' = video + 1
    /\ pc' = "video"
    /\ UNCHANGED <<videos, errors, sink, outcome>>
    /\ UNCHANGED <<loopVars, outsideRun>>

\* mutant of FullWriteRaises: the error of the writer is handled as the error
\* of a video is, and run() returns a result without a path
FullWriteRaises_swallowed ==
    /\ pipeline = "FullPipeline"
    /\ pc = "video"
    /\ video > videos
    /\ sink' = Append(sink, [written |-> all_results, ok |-> FALSE])
    /\ errors' = Append(errors, [video_id |-> 0, step |-> "write"])
    /\ outcome' = ReturnedValue([videos |-> processed_videos, results_path |-> "None",
                                 total_mistakes |-> Len(all_results)])
    /\ pc' = "run_returned"
    /\ UNCHANGED <<videos, video, all_results, processed_videos>>
    /\ UNCHANGED <<loopVars, outsideRun>>

\* pipeline.py:210: result_writer.write raises, after the loop over the
\* videos and outside its try statement
FullWriteRaises ==
    /\ pipeline = "FullPipeline"
    /\ pc = "video"
    /\ video > videos
    /\ sink' = Append(sink, [written |-> all_results, ok |-> FALSE])
    /\ outcome' = RaisedBy("write")
    /\ pc' = "run_raised"
    /\ UNCHANGED <<videos, video, all_results, processed_videos, errors>>
    /\ UNCHANGED <<loopVars, outsideRun>>

\* pipeline.py:210-217: the results are written and run() returns its dict
FullWrite ==
    /\ pipeline = "FullPipeline"
    /\ pc = "video"
    /\ video > videos
    /\ sink' = Append(sink, [written |-> all_results, ok |-> TRUE])
    /\ outcome' = ReturnedValue([videos |-> processed_videos, results_path |-> "results_path",
                                 total_mistakes |-> Len(all_results)])
    /\ pc' = "run_returned"
    /\ UNCHANGED <<videos, video, all_results, processed_videos, errors>>
    /\ UNCHANGED <<loopVars, outsideRun>>

\* pipeline.py:288-293: a call before the loop raises; no try statement is
\* around it
LegacyPrepareRaises ==
    /\ pipeline = "LegacyPipeline"
    /\ pc = "run"
    /\ \E step \in LegacySteps : outcome' = RaisedBy(step)
    /\ pc' = "run_raised"
    /\ UNCHANGED <<videos, video, all_results, processed_videos, errors, sink>>
    /\ UNCHANGED <<loopVars, outsideRun>>

\* pipeline.py:288-301: the text is loaded and split, the loop is entered
LegacyPrepare ==
    /\ pipeline = "LegacyPipeline"
    /\ pc = "run"
    /\ analysis_groups' \in RunGroups
    /\ idx' = 0
    /\ results' = <<>>
    /\ consecutive_errors' = 0
    /\ calls' = <<>>
    /\ sleeps' = <<>>
    /\ pc' = "loop"
    /\ UNCHANGED <<runVars, outsideRun>>

\* pipeline.py:318: writer.write raises
LegacyWriteRaises ==
    /\ pipeline = "LegacyPipeline"
    /\ pc = "returned"
    /\ sink' = Append(sink, [written |-> results, ok |-> FALSE])
    /\ outcome' = RaisedBy("write")
    /\ pc' = "run_raised"
    /\ UNCHANGED <<videos, video, all_results, processed_videos, errors>>
    /\ UNCHANGED <<loopVars, outsideRun>>

\* pipeline.py:318-319: the results are written and run() returns the path
LegacyWrite ==
    /\ pipeline = "LegacyPipeline"
    /\ pc = "returned"
    /\ sink' = Append(sink, [written |-> results, ok |-> TRUE])
    /\ outcome' = ReturnedValue("output")
    /\ pc' = "run_returned"
    /\ UNCHANGED <<videos, video, all_results, processed_videos, errors>>
    /\ UNCHANGED <<loopVars, outsideRun>>

NextRun ==
    \/ FullSearchRaises
    \/ FullSearch
    \/ FullVideoRaises
    \/ FullVideoAnalyze
    \/ FullSkip
    \/ FullAnalyzeOk
    \/ FullAnalyzeFail
    \/ FullReturn
    \/ FullCollect
    \/ FullWriteRaises
    \/ FullWrite
    \/ LegacyPrepareRaises
    \/ LegacyPrepare
    \/ LegacySkip
    \/ LegacyAnalyzeOk
    \/ LegacyAnalyzeFail
    \/ LegacyReturn
    \/ LegacyWriteRaises
    \/ LegacyWrite

SpecRun == InitRun /\ [][NextRun]_vars

\* -------------------------------------------------------------------
\* Properties of the two run() methods (checked under SpecRun)
\* -------------------------------------------------------------------

\* chunker.split has raised in this run
SplitRaised ==
    \/ \E e \in 1..Len(errors) : errors[e].step = "split"
    \/ outcome.kind = "raise" /\ outcome.error = "split"

\* C19 as stated (SplitError is fatal): once the split of a transcript has
\* raised, the run has ended with that error at its caller, in
\* FullPipeline.run and in LegacyPipeline.run alike.
C19_SplitErrorFatal ==
    SplitRaised => (pc = "run_raised" /\ outcome.kind = "raise" /\ outcome.error = "split")

\* C19 as amended (fatal in LegacyPipeline.run, per video in
\* FullPipeline.run): in LegacyPipeline.run a split that raised has ended the
\* run with that error, before any Port call and any write.  In
\* FullPipeline.run it never ends the run: the error is logged, the video gets
\* no entry among the processed videos, every video before the current one
\* is either logged or processed, and the run ends by an error only of the
\* search or of the writer.
C19_SplitErrorFatalInLegacyOnly ==
    /\ (pipeline = "LegacyPipeline" /\ SplitRaised)
           => /\ pc = "run_raised"
              /\ outcome.kind = "raise" /\ outcome.error = "split"
              /\ calls = <<>>
              /\ sink = <<>>
    /\ pipeline = "FullPipeline"
           => /\ \A e \in 1..Len(errors) : \A v \in 1..Len(processed_videos) :
                     processed_videos[v].video_id # errors[e].video_id
              /\ pc = "video" => Len(errors) + Len(processed_videos) = video - 1
              /\ outcome.kind = "raise" => outcome.error \in {"search", "write"}

\* C19's case: FullPipeline.run returned a result with the Detections of a
\* video it processed after the split of an earlier video had raised.
C19_Witness ==
    /\ pipeline = "FullPipeline"
    /\ pc = "run_returned"
    /\ outcome.kind = "return"
    /\ \E e \in 1..Len(errors) : \E v \in 1..Len(processed_videos) :
           /\ errors[e].step = "split"
           /\ processed_videos[v].video_id > errors[e].video_id
           /\ processed_videos[v].mistakes_found > 0
    /\ all_results # <<>>

\* C20 (SinkError is fatal): a write of the Result Sink that failed has ended
\* the run with that error at the caller of run(), and no error handler has
\* logged it; a run that returned a result after a search that found videos,
\* or after the loop of LegacyPipeline.run, has written its Detections once
\* and successfully.
C20_SinkErrorFatal ==
    /\ (\E w \in 1..Len(sink) : ~sink[w].ok)
           => /\ pc = "run_raised"
              /\ outcome.kind = "raise" /\ outcome.error = "write"
              /\ \A e \in 1..Len(errors) : errors[e].step # "write"
    /\ (pc = "run_returned" /\ (pipeline = "LegacyPipeline" \/ videos > 0))
           => sink = <<[written |-> IF pipeline = "FullPipeline" THEN all_results ELSE results,
                        ok |-> TRUE]>>

\* C20's case: the writer failed on a list that holds Detections, after a
\* video whose processing had raised and been handled, and the run ended with
\* the writer's error.
C20_Witness ==
    /\ pipeline = "FullPipeline"
    /\ pc = "run_raised"
    /\ outcome.kind = "raise" /\ outcome.error = "write"
    /\ errors # <<>>
    /\ Len(sink) = 1
    /\ ~sink[1].ok
    /\ sink[1].written # <<>>

\* -------------------------------------------------------------------
\* Further properties of the clients (checked under SpecPort)
\* -------------------------------------------------------------------

\* the calls made so far are on windows of strictly increasing index, a call
\* in progress is on a window behind all of them, and the Detections held
\* are in non-decreasing order of their window
PortOrdered ==
    /\ \A j, k \in 1..Len(calls) : j < k => calls[j].idx < calls[k].idx
    /\ pc = "analyze_group" => \A j \in 1..Len(calls) : calls[j].idx < idx
    /\ \A r, q \in 1..Len(results) : r < q => results[r].group_idx <= results[q].group_idx

\* a call begins only in the loop, where no call is in progress, and the
\* accumulator keeps what it holds
PortStepSequential ==
    /\ pc' = "analyze_group" => pc = "loop"
    /\ Len(results') >= Len(results)
    /\ SubSeq(results', 1, Len(results)) = results

\* C25 (sequential processing): the Port is invoked on windows in strictly
\* increasing index order, at most once per window and never while another
\* call is in progress; the accumulator only grows by appending, so the
\* Detections appear in non-decreasing window_index order.
C25_SequentialProcessing == []PortOrdered /\ [][PortStepSequential]_vars

\* C25's case: a call is in progress after two calls that have returned
\* Detections for different windows.
C25_Witness ==
    /\ pc = "analyze_group"
    /\ Len(calls) >= 2
    /\ \E r, q \in 1..Len(results) : results[r].group_idx < results[q].group_idx

\* C21 (Detections reference the catalog): the mistake_slug of every
\* Detection of the result is the slug of an entry of the catalog the run was
\* given, whatever slugs the responses of the external model hold.
C21_SlugInCatalog ==
    \A r \in 1..Len(results) : \E m \in mistakes : results[r].mistake_slug = AsSlug(m)

\* the anchor fragment behind every Detection the Port has returned in this
\* run, in the order of the calls: the video and the window of the call (a
\* window has one anchor, its last fragment)
RECURSIVE AnchorsReturned(_)
AnchorsReturned(history) ==
    IF history = <<>> THEN <<>>
    ELSE LET last == history[Len(history)]
         IN  AnchorsReturned(SubSeq(history, 1, Len(history) - 1))
                 \o [k \in 1..Len(last.returned) |-> [video |-> last.video, idx |-> last.idx]]

\* the Detections handed to the writer are the ones the Port returned, in
\* the order of the calls
WrittenAsReturned ==
    \A w \in 1..Len(sink) : Len(sink[w].written) = Len(AnchorsReturned(calls))

\* C26 (group_idx names one anchor): in the list a run hands to the Result
\* Sink, two Detections with the same group_idx refer to the same anchor
\* fragment, also when FullPipeline.run has processed more than one video.
C26_GroupIdxNamesOneAnchor ==
    \A w \in 1..Len(sink) :
        \A r, q \in 1..Len(sink[w].written) :
            sink[w].written[r].group_idx = sink[w].written[q].group_idx
                => AnchorsReturned(calls)[r] = AnchorsReturned(calls)[q]

\* the sum of mistakes_found over a list of video entries
RECURSIVE MistakesFound(_)
MistakesFound(entries) ==
    IF entries = <<>> THEN 0
    ELSE Head(entries).mistakes_found + MistakesFound(Tail(entries))

\* the number of Detections handed to the Result Sink in this run
PassedToSink == IF sink = <<>> THEN 0 ELSE Len(sink[Len(sink)].written)

\* C30 (result accounting): when FullPipeline.run returns, total_mistakes is
\* the number of Detections passed to the Result Sink and the sum of
\* mistakes_found over the returned videos list; a video whose processing
\* raised has no entry in that list and no Detection of the run is from it.
C30_ResultAccounting ==
    (pipeline = "FullPipeline" /\ pc = "run_returned") =>
        /\ outcome.kind = "return"
        /\ outcome.value.total_mistakes = PassedToSink
        /\ outcome.value.total_mistakes = MistakesFound(outcome.value.videos)
        /\ \A e \in 1..Len(errors) :
               /\ \A v \in 1..Len(outcome.value.videos) :
                      outcome.value.videos[v].video_id # errors[e].video_id
               /\ \A d \in 1..Len(AnchorsReturned(calls)) :
                      AnchorsReturned(calls)[d].video # errors[e].video_id

\* C30's case: a run has returned after a video whose processing raised and
\* a video that was analysed with Detections found.
C30_Witness ==
    /\ pipeline = "FullPipeline"
    /\ pc = "run_returned"
    /\ errors # <<>>
    /\ outcome.value.videos # <<>>
    /\ outcome.value.total_mistakes >= 1
    /\ PassedToSink >= 1

\* ===================================================================
\* _combine_to_groups with the budget of the eviction scenario
\* ===================================================================

\* token lengths around a budget of ten: two that fit twice, one that no
\* window can hold
ScenarioLengths == {4, 5, 11}

\* a chunker with max_tokens = 10 over chunk lists of those lengths
InitScenario ==
    /\ pc = "combine"
    /\ chunk_objs \in SeqsUpTo([token_length : ScenarioLengths], MaxScenarioFragments)
    /\ max_tokens = 10
    /\ max_chunks \in 1..MaxCap
    /\ window_start \in 0..MaxStart
    /\ i = 0
    /\ curr_grp = <<>>
    /\ curr_sum = 0
    /\ groups = <<>>
    /\ SplitIdle
    /\ AnalyzeIdle
    /\ PortIdle
    /\ RunIdle

SpecScenario == InitScenario /\ [][NextGroup]_vars

\* max_tokens=10, max_chunks=3, window_start=2, token lengths [4,4,5,5,5]
EvictionScenario ==
    /\ max_tokens = 10
    /\ max_chunks = 3
    /\ window_start = 2
    /\ chunk_objs = [k \in 1..5 |-> [token_length |-> IF k <= 2 THEN 4 ELSE 5]]

\* C22 as stated (eviction scenario): the grouper returns exactly three
\* windows, and window 0 consists of fragments 1..2 with a token total of 10.
C22_EvictionScenario ==
    (EvictionScenario /\ pc = "returned")
        => /\ Len(groups) = 3
           /\ groups[1] = <<1, 2>>
           /\ TokenSum(groups[1]) = 10

\* C22 as amended (eviction scenario): the grouper returns exactly three
\* windows, fragments 1..2, 2..3 and 3..4; window 0 has lost fragment 0 and
\* has a token total of 9 (4 + 5), the two others a total of 10.
C22_EvictionScenarioTotals ==
    (EvictionScenario /\ pc = "returned")
        => /\ groups = <<<<1, 2>>, <<2, 3>>, <<3, 4>>>>
           /\ TokenSum(groups[1]) = 9
           /\ TokenSum(groups[2]) = 10
           /\ TokenSum(groups[3]) = 10

\* C22's case: the scenario has been grouped to its end.
C22_Witness ==
    /\ EvictionScenario
    /\ pc = "returned"
    /\ Len(groups) = 3
    /\ Head(groups[1]) = 1

\* ===================================================================
\* FullPipeline.run over videos long enough to stop the analysis loop
\*                                                  pipeline.py:166-255
\* ===================================================================

\* what chunker.split returns here: a transcript of MaxBatchWindows windows
\* of the speaker, or one window of somebody else
BatchGroups ==
    {WindowsOver(MaxBatchWindows, [k \in 1..MaxBatchWindows |-> "speaker"]),
     WindowsOver(1, [k \in 1..1 |-> "other"])}

\* FullPipeline.run() is entered; no ceiling on the windows
InitBatch ==
    /\ InitRun
    /\ pipeline = "FullPipeline"
    /\ max_groups = {}

BatchVideoAnalyze == VideoAnalyze(BatchGroups)

NextBatch ==
    \/ FullSearchRaises
    \/ FullSearch
    \/ FullVideoRaises
    \/ BatchVideoAnalyze
    \/ FullSkip
    \/ FullAnalyzeOk
    \/ FullAnalyzeFail
    \/ FullReturn
    \/ FullCollect
    \/ FullWriteRaises
    \/ FullWrite

SpecBatch == InitBatch /\ [][NextBatch]_vars

\* call j of the run is the fifth failed call in a row for one video: the
\* counter of that video's loop has reached the threshold
ThresholdReachedAt(j) ==
    /\ j >= 5
    /\ \A d \in 0..4 : calls[j - d].raised /\ calls[j - d].video = calls[j].video

\* C23 (the breaker ends the Port calls of the run): once five calls in a row
\* have failed, the Port is not invoked again in this run, also not for the
\* windows of the videos that follow.
C23_BreakerEndsPortCalls ==
    \A j \in 1..Len(calls) : ThresholdReachedAt(j) => Len(calls) = j

\* ===================================================================
\* The analysis loop of run_local_file                  app.py:273-288
\* ===================================================================

\* app.py:277: settings.analysis_max_groups if it is positive, else len(groups)
LocalLimit ==
    LET analysis_max_groups == CHOOSE m \in max_groups : TRUE
    IN  IF analysis_max_groups > 0 THEN analysis_max_groups ELSE Len(analysis_groups)

\* app.py:277: the windows enumerate(groups[:...]) yields
LocalEnumerated == SliceLen(Len(analysis_groups), LocalLimit)

\* app.py:270-274: the groups are split, all_results is empty; the setting
\* analysis_max_groups is an integer (0 stands for no ceiling)
InitLocal ==
    /\ pc = "loop"
    /\ pipeline = "run_local_file"
    /\ \E n \in 0..MaxWindows : \E spk \in [1..n -> Speakers] :
           analysis_groups = WindowsOver(n, spk)
    /\ max_groups \in {{m} : m \in 0..MaxCeiling}
    /\ sleep_between_calls_s = 0
    /\ idx = 0
    /\ results = <<>>
    /\ consecutive_errors = 0
    /\ calls = <<>>
    /\ sleeps = <<>>
    /\ PortIdle
    /\ RunIdle
    /\ SplitIdle
    /\ chunk_objs = <<>>
    /\ max_tokens = 0
    /\ max_chunks = 0
    /\ window_start = 0
    /\ i = 0
    /\ curr_grp = <<>>
    /\ curr_sum = 0
    /\ groups = <<>>

\* app.py:278-279: `continue` for a window whose last chunk is of "other"
LocalSkip ==
    /\ pipeline = "run_local_file"
    /\ pc = "loop"
    /\ idx < LocalEnumerated
    /\ LastItem(GroupAt(idx)).speaker = "other"
    /\ idx' = idx + 1
    /\ UNCHANGED <<pc, pipeline, analysis_groups, max_groups, sleep_between_calls_s,
                   results, consecutive_errors, calls, sleeps>>
    /\ UNCHANGED outsideAnalyze

\* app.py:280-282: analyze_group returns and all_results is extended
LocalAnalyzeOk ==
    /\ pipeline = "run_local_file"
    /\ pc = "loop"
    /\ idx < LocalEnumerated
    /\ LastItem(GroupAt(idx)).speaker # "other"
    /\ \E out \in {o \in PortOutcomes : o.kind = "return"} :
           LET analysis == analyze_group(idx, GroupAt(idx), out.detections)
           IN  /\ calls' = Append(calls, CallEntry(idx, out, analysis))
               /\ results' = results \o analysis
    /\ idx' = idx + 1
    /\ UNCHANGED <<pc, pipeline, analysis_groups, max_groups, sleep_between_calls_s,
                   consecutive_errors, sleeps>>
    /\ UNCHANGED outsideAnalyze

\* app.py:283-284: analyze_group raises; the handler logs a warning and the
\* loop goes on with the next window
LocalAnalyzeFail ==
    /\ pipeline = "run_local_file"
    /\ pc = "loop"
    /\ idx < LocalEnumerated
    /\ LastItem(GroupAt(idx)).speaker # "other"
    /\ \E out \in {o \in PortOutcomes : o.kind = "raise"} :
           calls' = Append(calls, CallEntry(idx, out, <<>>))
    /\ idx' = idx + 1
    /\ UNCHANGED <<pc, pipeline, analysis_groups, max_groups, sleep_between_calls_s,
                   results, consecutive_errors, sleeps>>
    /\ UNCHANGED outsideAnalyze

\* app.py:277, 286: the windows are exhausted, the writer comes next
LocalReturn ==
    /\ pipeline = "run_local_file"
    /\ pc = "loop"
    /\ idx >= LocalEnumerated
    /\ pc' = "returned"
    /\ UNCHANGED analyzeVars
    /\ UNCHANGED outsideAnalyze

NextLocal ==
    \/ LocalSkip
    \/ LocalAnalyzeOk
    \/ LocalAnalyzeFail
    \/ LocalReturn

SpecLocal == InitLocal /\ [][NextLocal]_vars

\* C27 (the same breaker in run_local_file): after five consecutive failed
\* Port calls the loop of run_local_file makes no further Port call.
C27_LocalCircuitBreaker ==
    \A j \in 1..Len(calls) : FiveFailedUpTo(j) => j = Len(calls)

\* ===================================================================
\* The two loops under a ceiling that is not positive
\*                                        pipeline.py:232-236, 296-301
\* ===================================================================

\* max_groups is an int that the caller of run() or _analyze_groups passes;
\* here it is zero or negative
InitCeiling ==
    /\ pc = "loop"
    /\ pipeline \in {"FullPipeline", "LegacyPipeline"}
    /\ \E n \in 0..MaxWindows : \E spk \in [1..n -> Speakers] :
           analysis_groups = WindowsOver(n, spk)
    /\ max_groups \in {{0 - m} : m \in 0..MaxCeiling}
    /\ sleep_between_calls_s \in {0, 1}
    /\ idx = 0
    /\ results = <<>>
    /\ consecutive_errors = 0
    /\ calls = <<>>
    /\ sleeps = <<>>
    /\ PortIdle
    /\ RunIdle
    /\ SplitIdle
    /\ chunk_objs = <<>>
    /\ max_tokens = 0
    /\ max_chunks = 0
    /\ window_start = 0
    /\ i = 0
    /\ curr_grp = <<>>
    /\ curr_sum = 0
    /\ groups = <<>>

SpecCeiling == InitCeiling /\ [][NextAnalyze]_vars

\* C29 (ceiling of zero or below): with a max_groups of zero or less the loop
\* considers no window: the Port is never invoked and the result is empty.
C29_NoWindowUnderCeiling ==
    (\E m \in max_groups : m <= 0) =>
        /\ idx = 0
        /\ calls = <<>>
        /\ results = <<>>

=============================================================================
